---- MODULE Spec2Model ----
(***************************************************************************)
(* Verification model of src/joystick/SDL_joystick.c: the joystick         *)
(* registry (open/close, hot-plug, player-index table), the input filters, *)
(* the rumble scheduler, the joystick lock and the GUID codec.             *)
(*                                                                         *)
(* Every handler runs under the joystick lock, so in the registry          *)
(* specifications one handler is one atomic action.  The lock itself is    *)
(* modelled step by step in SpecLock.                                      *)
(*                                                                         *)
(* Handlers are written as operators on a record st holding the registry  *)
(* state; an action applies one handler to the current state and commits   *)
(* the result.  st.log is the ordered list of what the handler did that is *)
(* visible outside: events reaching the post point of the code (the        *)
(* external gate SDL_EventEnabled is taken in its default, enabled, state, *)
(* except on line 1978, where it also guards a write and is an input) and  *)
(* calls into the driver.  An entry is <<kind, instance id, a, b>>.        *)
(***************************************************************************)
EXTENDS Integers, Sequences, FiniteSets, TLC

VARIABLES
    SDL_joysticks_initialized,  \* static SDL_bool
    SDL_joysticks_quitting,     \* static SDL_bool
    SDL_joysticks,              \* the list of open handles, head first
    SDL_joystick_players,       \* the player-index table (slot k is element k+1)
    SDL_joystick_allows_background_events,
    devices,                    \* what the drivers enumerate: instance id -> attributes
    next_id,                    \* next instance id the drivers will hand out
    next_hid,                   \* next handle allocation
    unfocused,                  \* SDL_HasWindows() && SDL_GetKeyboardFocus() == NULL
    now,                        \* SDL_GetTicks()
    sensor_refs,                \* reference count of the sensor subsystem (SDL_INIT_SENSOR)
    log,                        \* what the last handler emitted, in order
    ret,                        \* what the last handler returned
    last_op,                    \* ghost: the previous call, where a specification records it
    balance,                    \* per id: successful opens minus closes
    opened_as,                  \* per id: handles returned by opens while balance > 0
    samples_hist,               \* ghost: the samples handed to axis 0, in order
    axis_evs,                   \* ghost: the axis-motion values delivered for axis 0, in order
    focus_kept,                 \* ghost: no sample was handled while events were to be ignored
    repeated,                   \* ghost: the last call repeated the call before it
    stale,                      \* ghost: handles the application still holds after their final close
    guid_pc,                    \* GUID codec: "idle", "args", "created" or "decoded"
    guid_args,                  \* GUID codec: the arguments of SDL_CreateJoystickGUID
    guid,                       \* GUID codec: SDL_JoystickGUID.data, 16 bytes
    guid_info,                  \* GUID codec: what SDL_GetJoystickGUIDInfo stored
    SDL_joystick_lock,          \* SDL_Mutex *: NULL or a mutex of mutexes
    SDL_joystick_lock_pending,  \* SDL_AtomicInt
    SDL_joysticks_locked,       \* static int, the lock depth
    mutexes,                    \* the mutex objects created so far: owner, count, destroyed
    threads                     \* per thread: position in Lock/Unlock and its locals

regVars == <<SDL_joysticks_initialized, SDL_joysticks_quitting, SDL_joysticks,
             SDL_joystick_players, SDL_joystick_allows_background_events,
             devices, next_id, next_hid, unfocused, now, sensor_refs, log, ret,
             last_op,
             balance, opened_as>>

ghostVars == <<last_op, samples_hist, axis_evs, focus_kept, repeated, stale>>

guidVars == <<guid_pc, guid_args, guid, guid_info>>

lockVars == <<SDL_joystick_lock, SDL_joystick_lock_pending, SDL_joysticks_locked,
              mutexes, threads>>

vars == <<regVars, samples_hist, axis_evs, focus_kept, repeated, stale, guidVars, lockVars>>

(***************************************************************************)
(* Bounds of the model.                                                    *)
(***************************************************************************)
MaxID == 2          \* instance ids the drivers hand out
MaxHid == 2         \* handle allocations
MaxRef == 2         \* opens of one handle
MaxSlot == 1        \* largest player index passed in
NumAxes == 1        \* axes a driver reports at open
NumButtons == 2     \* buttons a driver reports at open
NumHats == 1        \* hats a driver reports at open
NumDrivers == 2     \* entries of SDL_joystick_drivers in the build
MaxTs == 2          \* event timestamps handed in by the drivers
MaxSamples == 3     \* samples handed to the observed axis
MaxNow == 3000      \* the clock stops advancing here (ms)
NumThreads == 2     \* threads calling into the subsystem
MaxDepth == 2       \* nesting of SDL_LockJoysticks within one thread
MaxMutex == 2       \* mutex objects created over a run

(***************************************************************************)
(* Program constants.                                                      *)
(***************************************************************************)
SDL_JOYSTICK_AXIS_MAX == 32767
SDL_JOYSTICK_AXIS_MIN == -32768
SDL_HAT_CENTERED == 0
SDL_RELEASED == 0
SDL_PRESSED == 1
SDL_RUMBLE_RESEND_MS == 2000
SDL_MAX_RUMBLE_DURATION_MS == 65535
SDL_LED_MIN_REPEAT_MS == 5000

NULL == 0

SDL_abs(x) == IF x < 0 THEN -x ELSE x
SDL_min(a, b) == IF a < b THEN a ELSE b

AxisInfo0 ==
    [initial_value |-> 0, value |-> 0, zero |-> 0,
     has_initial_value |-> FALSE, has_second_value |-> FALSE,
     sent_initial_value |-> FALSE, sending_initial_value |-> FALSE]

(* The state the handlers work on. *)
Cur ==
    [initialized |-> SDL_joysticks_initialized,
     quitting |-> SDL_joysticks_quitting,
     joysticks |-> SDL_joysticks,
     players |-> SDL_joystick_players,
     allow_bg |-> SDL_joystick_allows_background_events,
     devices |-> devices,
     next_id |-> next_id,
     next_hid |-> next_hid,
     unfocused |-> unfocused,
     now |-> now,
     sensor_refs |-> sensor_refs,
     locked |-> SDL_joysticks_locked,
     log |-> <<>>,
     ret |-> 0]

Commit(st) ==
    /\ SDL_joysticks_initialized' = st.initialized
    /\ SDL_joysticks_quitting' = st.quitting
    /\ SDL_joysticks' = st.joysticks
    /\ SDL_joystick_players' = st.players
    /\ SDL_joystick_allows_background_events' = st.allow_bg
    /\ devices' = st.devices
    /\ next_id' = st.next_id
    /\ next_hid' = st.next_hid
    /\ unfocused' = st.unfocused
    /\ now' = st.now
    /\ sensor_refs' = st.sensor_refs
    /\ log' = st.log
    /\ ret' = st.ret
    /\ SDL_joysticks_locked' = st.locked
    /\ UNCHANGED <<guidVars, SDL_joystick_lock, SDL_joystick_lock_pending, mutexes, threads>>

Emit(st, e) == [st EXCEPT !.log = Append(@, e)]

(* The depth counter of the joystick lock as one thread's calls move it;   *)
(* the mutex itself and the interleaving of threads are the subject of the *)
(* lock section further down.                                              *)
SDL_LockJoysticks(st) == [st EXCEPT !.locked = @ + 1]

SDL_UnlockJoysticks(st) == [st EXCEPT !.locked = @ - 1]

(* Starts the walk at the second entry of the list. *)
FindByInstance_skiphead(js, instance_id) ==
    IF \E k \in 2..Len(js) : js[k].instance_id = instance_id
    THEN CHOOSE k \in 2..Len(js) : js[k].instance_id = instance_id
    ELSE 0

(* Position in the list of the handle with this instance id, 0 if none. *)
FindByInstance(js, instance_id) ==
    IF \E k \in 1..Len(js) : js[k].instance_id = instance_id
    THEN CHOOSE k \in 1..Len(js) :
            /\ js[k].instance_id = instance_id
            /\ \A m \in 1..(k - 1) : js[m].instance_id # instance_id
    ELSE 0

(* Position in the list of a handle pointer, 0 for NULL, a freed or a foreign pointer. *)
FindByHandle(js, hid) ==
    IF \E k \in 1..Len(js) : js[k].hid = hid
    THEN CHOOSE k \in 1..Len(js) : js[k].hid = hid
    ELSE 0

RemoveAt(s, k) == [i \in 1..(Len(s) - 1) |-> IF i < k THEN s[i] ELSE s[i + 1]]

SDL_GetDriverAndJoystickIndex(st, instance_id) ==
    instance_id > 0 /\ instance_id \in DOMAIN st.devices

SDL_FindFreePlayerIndex_end(players) == Len(players)

SDL_FindFreePlayerIndex(players) ==
    IF \E k \in 1..Len(players) : players[k] = 0
    THEN (CHOOSE k \in 1..Len(players) :
            players[k] = 0 /\ \A m \in 1..(k - 1) : players[m] # 0) - 1
    ELSE Len(players)

SDL_GetPlayerIndexForJoystickID_none(players, instance_id) == -1

SDL_GetPlayerIndexForJoystickID(players, instance_id) ==
    IF \E k \in 1..Len(players) : players[k] = instance_id
    THEN (CHOOSE k \in 1..Len(players) :
            players[k] = instance_id /\ \A m \in 1..(k - 1) : players[m] # instance_id) - 1
    ELSE -1

SDL_GetJoystickIDForPlayerIndex_last(players, player_index) ==
    IF player_index < 0 \/ Len(players) = 0 THEN 0
    ELSE IF player_index >= Len(players) THEN players[Len(players)]
    ELSE players[player_index + 1]

SDL_GetJoystickIDForPlayerIndex(players, player_index) ==
    IF player_index < 0 \/ player_index >= Len(players) THEN 0
    ELSE players[player_index + 1]

(* The table growth of lines 270-279; the allocation is taken to succeed. *)
GrowPlayers(players, player_index) ==
    IF player_index >= Len(players)
    THEN players \o [i \in 1..(player_index + 1 - Len(players)) |-> 0]
    ELSE players

(* Lines 285-289: clear the old player index. *)
ClearOldPlayerIndex_keep(players, instance_id) == players

ClearOldPlayerIndex(players, instance_id) ==
    LET existing_player_index == SDL_GetPlayerIndexForJoystickID(players, instance_id)
    IN  IF existing_player_index >= 0
        THEN [players EXCEPT ![existing_player_index + 1] = 0]
        ELSE players

RECURSIVE SDL_SetJoystickIDForPlayerIndex(_, _, _)
SDL_SetJoystickIDForPlayerIndex(st, player_index, instance_id) ==
    LET existing_instance == SDL_GetJoystickIDForPlayerIndex(st.players, player_index)
        grown == GrowPlayers(st.players, player_index)
    IN  IF /\ player_index < Len(st.players)
           /\ player_index >= 0
           /\ st.players[player_index + 1] = instance_id
        THEN st
        ELSE
          LET cleared == ClearOldPlayerIndex(grown, instance_id)
              assigned == IF player_index >= 0
                          THEN [cleared EXCEPT ![player_index + 1] = instance_id]
                          ELSE cleared
              st1 == [st EXCEPT !.players = assigned]
              st2 == IF SDL_GetDriverAndJoystickIndex(st1, instance_id)
                     THEN Emit(st1, <<"drv_SetDevicePlayerIndex", instance_id, player_index, 0>>)
                     ELSE st1
          IN  IF existing_instance > 0
              THEN SDL_SetJoystickIDForPlayerIndex(
                        st2, SDL_FindFreePlayerIndex(st2.players), existing_instance)
              ELSE st2

SDL_PrivateJoystickShouldIgnoreEvent(st) ==
    IF st.allow_bg THEN FALSE
    ELSE st.unfocused

(***************************************************************************)
(* Input filters: SDL_SendJoystickAxis / Hat / Button.  k is the position  *)
(* of the handle in the list; the handle's arrays are indexed from 0 in    *)
(* the code and from 1 here.                                               *)
(***************************************************************************)
SetAxisInfo(st, k, axis, info) ==
    [st EXCEPT !.joysticks[k].axes[axis + 1] = info]

MAX_ALLOWED_JITTER_quarter == SDL_JOYSTICK_AXIS_MAX \div 4

MAX_ALLOWED_JITTER == SDL_JOYSTICK_AXIS_MAX \div 80

(* Line 1775-1776: the sample (re)establishes the initial value. *)
AxisTakesInitialValue_always(info, value) ==
    \/ ~info.has_initial_value
    \/ /\ (info.initial_value <= -32767 \/ info.initial_value = 32767)
       /\ SDL_abs(value) < (SDL_JOYSTICK_AXIS_MAX \div 4)

AxisTakesInitialValue(info, value) ==
    \/ ~info.has_initial_value
    \/ /\ ~info.has_second_value
       /\ (info.initial_value <= -32767 \/ info.initial_value = 32767)
       /\ SDL_abs(value) < (SDL_JOYSTICK_AXIS_MAX \div 4)

(* Lines 1786-1791: the sample is swallowed as jitter. *)
AxisIsJitter(joystick, info, value) ==
    /\ SDL_abs(value - info.value) <= MAX_ALLOWED_JITTER
    /\ ~joystick.virtual

(* Lines 1802-1808: the focus filter of the axis. *)
AxisIgnored_positive(st, info, value) ==
    /\ SDL_PrivateJoystickShouldIgnoreEvent(st)
    /\ \/ info.sending_initial_value
       \/ (value > info.zero /\ value >= info.value)

AxisIgnored(st, info, value) ==
    /\ SDL_PrivateJoystickShouldIgnoreEvent(st)
    /\ \/ info.sending_initial_value
       \/ (value > info.zero /\ value >= info.value)
       \/ (value < info.zero /\ value <= info.value)

(* Lines 1799-1828: focus filter, state update and event. *)
AxisDeliver(st, k, timestamp, axis, value) ==
    LET joystick == st.joysticks[k]
        info == joystick.axes[axis + 1]
    IN  IF AxisIgnored(st, info, value) THEN st
        ELSE Emit([st EXCEPT !.joysticks[k].axes[axis + 1].value = value,
                             !.joysticks[k].update_complete = timestamp],
                  <<"ev_axis", joystick.instance_id, axis, value>>)

RECURSIVE SDL_SendJoystickAxis(_, _, _, _, _)
SDL_SendJoystickAxis(st, k, timestamp, axis, value) ==
    LET joystick == st.joysticks[k]
    IN  IF axis >= Len(joystick.axes) THEN st
        ELSE
          LET info == joystick.axes[axis + 1]
              takes == AxisTakesInitialValue(info, value)
          IN  IF ~takes /\ value = info.value /\ ~info.sending_initial_value THEN st
              ELSE
                LET info1 == IF takes
                             THEN [info EXCEPT !.initial_value = value,
                                               !.value = value,
                                               !.zero = value,
                                               !.has_initial_value = TRUE]
                             ELSE [info EXCEPT !.has_second_value = TRUE]
                    st1 == SetAxisInfo(st, k, axis, info1)
                IN  IF ~info1.sent_initial_value
                    THEN IF AxisIsJitter(joystick, info1, value) THEN st1
                         ELSE
                           LET st2 == SetAxisInfo(st1, k, axis,
                                        [info1 EXCEPT !.sent_initial_value = TRUE,
                                                      !.sending_initial_value = TRUE])
                               st3 == SDL_SendJoystickAxis(st2, k, timestamp, axis,
                                                           info1.initial_value)
                               st4 == [st3 EXCEPT
                                         !.joysticks[k].axes[axis + 1].sending_initial_value = FALSE]
                           IN  AxisDeliver(st4, k, timestamp, axis, value)
                    ELSE AxisDeliver(st1, k, timestamp, axis, value)

SDL_SendJoystickHat_nocompare(st, k, timestamp, hat, value) ==
    LET joystick == st.joysticks[k]
    IN  IF hat >= Len(joystick.hats) THEN st
        ELSE IF SDL_PrivateJoystickShouldIgnoreEvent(st) /\ value # SDL_HAT_CENTERED THEN st
        ELSE Emit([st EXCEPT !.joysticks[k].hats[hat + 1] = value,
                             !.joysticks[k].update_complete = timestamp],
                  <<"ev_hat", joystick.instance_id, hat, value>>)

SDL_SendJoystickHat(st, k, timestamp, hat, value) ==
    LET joystick == st.joysticks[k]
    IN  IF hat >= Len(joystick.hats) THEN st
        ELSE IF value = joystick.hats[hat + 1] THEN st
        ELSE IF SDL_PrivateJoystickShouldIgnoreEvent(st) /\ value # SDL_HAT_CENTERED THEN st
        ELSE Emit([st EXCEPT !.joysticks[k].hats[hat + 1] = value,
                             !.joysticks[k].update_complete = timestamp],
                  <<"ev_hat", joystick.instance_id, hat, value>>)

SDL_SendJoystickButton_nofocus(st, k, timestamp, button, state) ==
    LET joystick == st.joysticks[k]
    IN  IF state \notin {SDL_PRESSED, SDL_RELEASED} THEN st
        ELSE IF button >= Len(joystick.buttons) THEN st
        ELSE IF state = joystick.buttons[button + 1] THEN st
        ELSE Emit([st EXCEPT !.joysticks[k].buttons[button + 1] = state,
                             !.joysticks[k].update_complete = timestamp],
                  <<(IF state = SDL_PRESSED THEN "ev_button_down" ELSE "ev_button_up"),
                    joystick.instance_id, button, state>>)

SDL_SendJoystickButton(st, k, timestamp, button, state) ==
    LET joystick == st.joysticks[k]
    IN  IF state \notin {SDL_PRESSED, SDL_RELEASED} THEN st
        ELSE IF button >= Len(joystick.buttons) THEN st
        ELSE IF state = joystick.buttons[button + 1] THEN st
        ELSE IF SDL_PrivateJoystickShouldIgnoreEvent(st) /\ state = SDL_PRESSED THEN st
        ELSE Emit([st EXCEPT !.joysticks[k].buttons[button + 1] = state,
                             !.joysticks[k].update_complete = timestamp],
                  <<(IF state = SDL_PRESSED THEN "ev_button_down" ELSE "ev_button_up"),
                    joystick.instance_id, button, state>>)

(***************************************************************************)
(* Touchpads.  A float coordinate or pressure is modelled by an integer,   *)
(* 0 for 0.0f and 1 for 1.0f; the driver may report values outside.        *)
(***************************************************************************)
FingerInfo0 == [state |-> 0, x |-> 0, y |-> 0, pressure |-> 0]

(* Called by the driver's Open; the allocations succeed. *)
SDL_PrivateJoystickAddTouchpad(st, k, nfingers) ==
    [st EXCEPT !.joysticks[k].touchpads = Append(@, [j \in 1..nfingers |-> FingerInfo0])]

(* Lines 3287-3301. *)
ClampUnit(v) == IF v < 0 THEN 0 ELSE IF v > 1 THEN 1 ELSE v

SDL_SendJoystickTouchpad(st, k, timestamp, touchpad, finger, state, x, y, pressure) ==
    LET joystick == st.joysticks[k]
    IN  IF touchpad < 0 \/ touchpad >= Len(joystick.touchpads) THEN st
        ELSE IF finger < 0 \/ finger >= Len(joystick.touchpads[touchpad + 1]) THEN st
        ELSE
          LET finger_info == joystick.touchpads[touchpad + 1][finger + 1]
              keep == state = 0 /\ x = 0 /\ y = 0
              x1 == ClampUnit(IF keep THEN finger_info.x ELSE x)
              y1 == ClampUnit(IF keep THEN finger_info.y ELSE y)
              pressure1 == ClampUnit(IF state = 0 THEN 0 ELSE pressure)
              event_type == IF state = finger_info.state THEN "ev_touchpad_motion"
                            ELSE IF state # 0 THEN "ev_touchpad_down"
                            ELSE "ev_touchpad_up"
          IN  IF /\ state = finger_info.state
                 /\ \/ state = 0
                    \/ (x1 = finger_info.x /\ y1 = finger_info.y
                        /\ pressure1 = finger_info.pressure)
              THEN st
              ELSE IF /\ SDL_PrivateJoystickShouldIgnoreEvent(st)
                      /\ event_type # "ev_touchpad_up"
              THEN st
              ELSE Emit([st EXCEPT !.joysticks[k].touchpads[touchpad + 1][finger + 1] =
                                      [state |-> state, x |-> x1, y |-> y1,
                                       pressure |-> pressure1],
                                   !.joysticks[k].update_complete = timestamp],
                        <<event_type, joystick.instance_id, finger,
                          <<touchpad, x1, y1, pressure1>>>>)

(***************************************************************************)
(* Rumble.  drv_ok is the driver's answer when the handler calls it.       *)
(***************************************************************************)
SDL_RumbleJoystick_nosame(st0, k, low_frequency_rumble, high_frequency_rumble, duration_ms, drv_ok) ==
    LET st == SDL_LockJoysticks(st0)
        joystick == st.joysticks[k]
        same == FALSE
        retval == IF same \/ drv_ok THEN 0 ELSE -1
        st1 == IF same THEN st
               ELSE Emit([st EXCEPT !.joysticks[k].rumble_resend =
                                        st.now + SDL_RUMBLE_RESEND_MS],
                         <<"drv_Rumble", joystick.instance_id,
                           low_frequency_rumble, high_frequency_rumble>>)
        expiration == st.now + SDL_min(duration_ms, SDL_MAX_RUMBLE_DURATION_MS)
        st2 == IF retval # 0 THEN st1
               ELSE IF (low_frequency_rumble # 0 \/ high_frequency_rumble # 0) /\ duration_ms # 0
               THEN [st1 EXCEPT
                       !.joysticks[k].low_frequency_rumble = low_frequency_rumble,
                       !.joysticks[k].high_frequency_rumble = high_frequency_rumble,
                       !.joysticks[k].rumble_expiration =
                            IF expiration = 0 THEN 1 ELSE expiration]
               ELSE [st1 EXCEPT
                       !.joysticks[k].low_frequency_rumble = low_frequency_rumble,
                       !.joysticks[k].high_frequency_rumble = high_frequency_rumble,
                       !.joysticks[k].rumble_expiration = 0,
                       !.joysticks[k].rumble_resend = 0]
    IN  SDL_UnlockJoysticks([st2 EXCEPT !.ret = retval])

SDL_RumbleJoystick(st0, k, low_frequency_rumble, high_frequency_rumble, duration_ms, drv_ok) ==
    LET st == SDL_LockJoysticks(st0)
        joystick == st.joysticks[k]
        same == /\ low_frequency_rumble = joystick.low_frequency_rumble
                /\ high_frequency_rumble = joystick.high_frequency_rumble
        retval == IF same \/ drv_ok THEN 0 ELSE -1
        st1 == IF same THEN st
               ELSE Emit([st EXCEPT !.joysticks[k].rumble_resend =
                                        st.now + SDL_RUMBLE_RESEND_MS],
                         <<"drv_Rumble", joystick.instance_id,
                           low_frequency_rumble, high_frequency_rumble>>)
        expiration == st.now + SDL_min(duration_ms, SDL_MAX_RUMBLE_DURATION_MS)
        st2 == IF retval # 0 THEN st1
               ELSE IF (low_frequency_rumble # 0 \/ high_frequency_rumble # 0) /\ duration_ms # 0
               THEN [st1 EXCEPT
                       !.joysticks[k].low_frequency_rumble = low_frequency_rumble,
                       !.joysticks[k].high_frequency_rumble = high_frequency_rumble,
                       !.joysticks[k].rumble_expiration =
                            IF expiration = 0 THEN 1 ELSE expiration]
               ELSE [st1 EXCEPT
                       !.joysticks[k].low_frequency_rumble = low_frequency_rumble,
                       !.joysticks[k].high_frequency_rumble = high_frequency_rumble,
                       !.joysticks[k].rumble_expiration = 0,
                       !.joysticks[k].rumble_resend = 0]
    IN  SDL_UnlockJoysticks([st2 EXCEPT !.ret = retval])

SDL_RumbleJoystickTriggers(st0, k, left_rumble, right_rumble, duration_ms, drv_ok) ==
    LET st == SDL_LockJoysticks(st0)
        joystick == st.joysticks[k]
        same == /\ left_rumble = joystick.left_trigger_rumble
                /\ right_rumble = joystick.right_trigger_rumble
        retval == IF same \/ drv_ok THEN 0 ELSE -1
        st1 == IF same THEN st
               ELSE Emit(st, <<"drv_RumbleTriggers", joystick.instance_id,
                               left_rumble, right_rumble>>)
        st2 == IF retval # 0 THEN st1
               ELSE [st1 EXCEPT
                       !.joysticks[k].left_trigger_rumble = left_rumble,
                       !.joysticks[k].right_trigger_rumble = right_rumble,
                       !.joysticks[k].trigger_rumble_expiration =
                            IF (left_rumble # 0 \/ right_rumble # 0) /\ duration_ms # 0
                            THEN st.now + SDL_min(duration_ms, SDL_MAX_RUMBLE_DURATION_MS)
                            ELSE 0]
    IN  SDL_UnlockJoysticks([st2 EXCEPT !.ret = retval])

(***************************************************************************)
(* Open and close.                                                         *)
(***************************************************************************)
SDL_JoystickAxesCenteredAtZero(naxes, listed) ==
    naxes = 2 \/ listed

(* The allocation already counts as a reference. *)
NewJoystick_counted(st, instance_id) ==
    LET dev == st.devices[instance_id]
    IN  [hid |-> st.next_hid,
         instance_id |-> instance_id,
         ref_count |-> 1,
         attached |-> TRUE,
         magic |-> TRUE,
         is_gamepad |-> dev.gamepad,
         virtual |-> dev.virtual,
         axes |-> [i \in 1..dev.naxes |->
                     [AxisInfo0 EXCEPT !.has_initial_value =
                         SDL_JoystickAxesCenteredAtZero(dev.naxes, dev.centered)]],
         hats |-> [i \in 1..NumHats |-> SDL_HAT_CENTERED],
         buttons |-> [i \in 1..NumButtons |-> SDL_RELEASED],
         low_frequency_rumble |-> 0,
         high_frequency_rumble |-> 0,
         rumble_expiration |-> 0,
         rumble_resend |-> 0,
         left_trigger_rumble |-> 0,
         right_trigger_rumble |-> 0,
         trigger_rumble_expiration |-> 0,
         led |-> <<0, 0, 0>>,
         led_expiration |-> st.now,
         touchpads |-> <<>>,
         nsensors |-> 0,
         accel_sensor |-> 0,
         gyro_sensor |-> 0,
         update_complete |-> 0]

NewJoystick(st, instance_id) ==
    LET dev == st.devices[instance_id]
    IN  [hid |-> st.next_hid,
         instance_id |-> instance_id,
         ref_count |-> 0,
         attached |-> TRUE,
         magic |-> TRUE,
         is_gamepad |-> dev.gamepad,
         virtual |-> dev.virtual,
         axes |-> [i \in 1..dev.naxes |->
                     [AxisInfo0 EXCEPT !.has_initial_value =
                         SDL_JoystickAxesCenteredAtZero(dev.naxes, dev.centered)]],
         hats |-> [i \in 1..NumHats |-> SDL_HAT_CENTERED],
         buttons |-> [i \in 1..NumButtons |-> SDL_RELEASED],
         low_frequency_rumble |-> 0,
         high_frequency_rumble |-> 0,
         rumble_expiration |-> 0,
         rumble_resend |-> 0,
         left_trigger_rumble |-> 0,
         right_trigger_rumble |-> 0,
         trigger_rumble_expiration |-> 0,
         led |-> <<0, 0, 0>>,
         led_expiration |-> st.now,
         touchpads |-> <<>>,
         nsensors |-> 0,
         accel_sensor |-> 0,
         gyro_sensor |-> 0,
         update_complete |-> 0]

(* What a driver's Update reports: a sequence of <<kind, index, value>>, *)
(* each handed to the matching filter.                                   *)
RECURSIVE ApplySamples(_, _, _, _)
ApplySamples(st, k, timestamp, samples) ==
    IF samples = <<>> THEN st
    ELSE LET s == Head(samples)
             st1 == IF s[1] = "axis" THEN SDL_SendJoystickAxis(st, k, timestamp, s[2], s[3])
                    ELSE IF s[1] = "hat" THEN SDL_SendJoystickHat(st, k, timestamp, s[2], s[3])
                    ELSE SDL_SendJoystickButton(st, k, timestamp, s[2], s[3])
         IN  ApplySamples(st1, k, timestamp, Tail(samples))

DriverUpdate(st, k, timestamp, samples) ==
    ApplySamples(Emit(st, <<"drv_Update", st.joysticks[k].instance_id, 0, 0>>),
                 k, timestamp, samples)

(* Returns the handle without counting the reference. *)
OpenExisting_nocount(st, found) ==
    [st EXCEPT !.ret = st.joysticks[found].hid]

(* Lines 746-751: the joystick is already open. *)
OpenExisting(st, found) ==
    [st EXCEPT !.joysticks[found].ref_count = @ + 1,
               !.ret = st.joysticks[found].hid]

(* Returns from the failed driver Open with the lock still held. *)
SDL_OpenJoystick_leak(st0, instance_id, outcome, timestamp, samples) ==
    LET st == SDL_LockJoysticks(st0)
    IN
    IF ~SDL_GetDriverAndJoystickIndex(st, instance_id)
    THEN SDL_UnlockJoysticks([st EXCEPT !.ret = NULL])
    ELSE
      LET found == FindByInstance(st.joysticks, instance_id)
      IN  IF found # 0
          THEN SDL_UnlockJoysticks(OpenExisting(st, found))
          ELSE
            LET st1 == Emit(st, <<"drv_Open", instance_id, 0, 0>>)
            IN  IF outcome = "open_fail"
                THEN [st1 EXCEPT !.ret = NULL]
                ELSE IF outcome = "nomem"
                THEN SDL_UnlockJoysticks(
                        [Emit(st1, <<"drv_Close", instance_id, 0, 0>>) EXCEPT !.ret = NULL])
                ELSE
                  LET joystick == [NewJoystick(st, instance_id) EXCEPT !.ref_count = @ + 1]
                      st2 == [st1 EXCEPT !.joysticks = <<joystick>> \o @,
                                         !.next_hid = @ + 1]
                      st3 == DriverUpdate(st2, 1, timestamp, samples)
                  IN  SDL_UnlockJoysticks([st3 EXCEPT !.ret = joystick.hid])

(* outcome: "ok", "open_fail" (driver->Open < 0) or "nomem" (an array allocation fails). *)
SDL_OpenJoystick(st0, instance_id, outcome, timestamp, samples) ==
    LET st == SDL_LockJoysticks(st0)
    IN
    IF ~SDL_GetDriverAndJoystickIndex(st, instance_id)
    THEN SDL_UnlockJoysticks([st EXCEPT !.ret = NULL])
    ELSE
      LET found == FindByInstance(st.joysticks, instance_id)
      IN  IF found # 0
          THEN SDL_UnlockJoysticks(OpenExisting(st, found))
          ELSE
            LET st1 == Emit(st, <<"drv_Open", instance_id, 0, 0>>)
            IN  IF outcome = "open_fail"
                THEN SDL_UnlockJoysticks([st1 EXCEPT !.ret = NULL])
                ELSE IF outcome = "nomem"
                THEN SDL_UnlockJoysticks(
                        [Emit(st1, <<"drv_Close", instance_id, 0, 0>>) EXCEPT !.ret = NULL])
                ELSE
                  LET joystick == [NewJoystick(st, instance_id) EXCEPT !.ref_count = @ + 1]
                      st2 == [st1 EXCEPT !.joysticks = <<joystick>> \o @,
                                         !.next_hid = @ + 1]
                      st3 == DriverUpdate(st2, 1, timestamp, samples)
                  IN  SDL_UnlockJoysticks([st3 EXCEPT !.ret = joystick.hid])

(* The handle fails CHECK_JOYSTICK_MAGIC: it is NULL, or it is not one of  *)
(* the live SDL_Joystick objects, whose marker is set.                     *)
MagicFails(st, joystick) ==
    LET k == FindByHandle(st.joysticks, joystick)
    IN  joystick = NULL \/ k = 0 \/ ~st.joysticks[k].magic

(* What CHECK_JOYSTICK_MAGIC does when the check fails. *)
CHECK_JOYSTICK_MAGIC(st, retval) ==
    SDL_UnlockJoysticks([Emit(st, <<"SDL_SetError", 0, 0, 0>>) EXCEPT !.ret = retval])

(***************************************************************************)
(* Sensor fusion.  The reference count of the sensor subsystem is kept by  *)
(* SDL_InitSubSystem and SDL_QuitSubSystem; sensors is what SDL_GetSensors *)
(* returns, a sequence of [id, type].                                      *)
(***************************************************************************)
SDL_InitSubSystem_SENSOR(st) == [st EXCEPT !.sensor_refs = @ + 1]

SDL_QuitSubSystem_SENSOR(st) == [st EXCEPT !.sensor_refs = IF @ > 0 THEN @ - 1 ELSE 0]

(* The allocation succeeds. *)
SDL_PrivateJoystickAddSensor(st, k) == [st EXCEPT !.joysticks[k].nsensors = @ + 1]

(* hint_says is the outcome of the hint and name tests of lines 574-608. *)
ShouldAttemptSensorFusion(joystick, hint_says) ==
    IF ~joystick.is_gamepad THEN FALSE
    ELSE IF joystick.nsensors > 0 THEN FALSE
    ELSE hint_says

RECURSIVE BorrowSensors(_, _, _, _)
BorrowSensors(st, k, sensors, i) ==
    IF i > Len(sensors) THEN st
    ELSE
      LET sensor == sensors[i]
          st1 == IF st.joysticks[k].accel_sensor = 0 /\ sensor.type = "SDL_SENSOR_ACCEL"
                 THEN SDL_PrivateJoystickAddSensor(
                          [SDL_InitSubSystem_SENSOR(st) EXCEPT
                              !.joysticks[k].accel_sensor = sensor.id], k)
                 ELSE st
          st2 == IF st1.joysticks[k].gyro_sensor = 0 /\ sensor.type = "SDL_SENSOR_GYRO"
                 THEN SDL_PrivateJoystickAddSensor(
                          [SDL_InitSubSystem_SENSOR(st1) EXCEPT
                              !.joysticks[k].gyro_sensor = sensor.id], k)
                 ELSE st1
      IN  BorrowSensors(st2, k, sensors, i + 1)

(* init_ok: the first SDL_InitSubSystem(SDL_INIT_SENSOR) succeeds. *)
AttemptSensorFusion(st, k, sensors, init_ok) ==
    IF ~init_ok THEN st
    ELSE SDL_QuitSubSystem_SENSOR(BorrowSensors(SDL_InitSubSystem_SENSOR(st), k, sensors, 1))

(* One reference is given back however many sensors were borrowed. *)
CleanupSensorFusion_once(st, k) ==
    LET joystick == st.joysticks[k]
    IN  IF joystick.accel_sensor # 0 \/ joystick.gyro_sensor # 0
        THEN SDL_QuitSubSystem_SENSOR([st EXCEPT !.joysticks[k].accel_sensor = 0,
                                                 !.joysticks[k].gyro_sensor = 0])
        ELSE st

CleanupSensorFusion(st, k) ==
    LET joystick == st.joysticks[k]
        st1 == IF joystick.accel_sensor # 0
               THEN SDL_QuitSubSystem_SENSOR([st EXCEPT !.joysticks[k].accel_sensor = 0])
               ELSE st
    IN  IF joystick.gyro_sensor # 0
        THEN SDL_QuitSubSystem_SENSOR([st1 EXCEPT !.joysticks[k].gyro_sensor = 0])
        ELSE st1

(* Tears the handle down while one reference is still held. *)
SDL_CloseJoystick_eager(st_in, hid, drv_ok) ==
    LET st == SDL_LockJoysticks(st_in)
        k == FindByHandle(st.joysticks, hid)
    IN  IF MagicFails(st, hid) THEN CHECK_JOYSTICK_MAGIC(st, 0)
        ELSE
          LET st0 == [st EXCEPT !.joysticks[k].ref_count = @ - 1]
          IN  IF st0.joysticks[k].ref_count > 1
              THEN SDL_UnlockJoysticks([st0 EXCEPT !.ret = 0])
              ELSE
                LET st1 == IF st0.joysticks[k].rumble_expiration # 0
                           THEN SDL_RumbleJoystick(st0, k, 0, 0, 0, drv_ok)
                           ELSE st0
                    st2 == IF st1.joysticks[k].trigger_rumble_expiration # 0
                           THEN SDL_RumbleJoystickTriggers(st1, k, 0, 0, 0, drv_ok)
                           ELSE st1
                    st2b == CleanupSensorFusion(st2, k)
                    st3 == Emit(st2b, <<"drv_Close", st2.joysticks[k].instance_id, 0, 0>>)
                IN  SDL_UnlockJoysticks([st3 EXCEPT !.joysticks = RemoveAt(@, k), !.ret = 0])

SDL_CloseJoystick(st_in, hid, drv_ok) ==
    LET st == SDL_LockJoysticks(st_in)
        k == FindByHandle(st.joysticks, hid)
    IN  IF MagicFails(st, hid) THEN CHECK_JOYSTICK_MAGIC(st, 0)
        ELSE
          LET st0 == [st EXCEPT !.joysticks[k].ref_count = @ - 1]
          IN  IF st0.joysticks[k].ref_count > 0
              THEN SDL_UnlockJoysticks([st0 EXCEPT !.ret = 0])
              ELSE
                LET st1 == IF st0.joysticks[k].rumble_expiration # 0
                           THEN SDL_RumbleJoystick(st0, k, 0, 0, 0, drv_ok)
                           ELSE st0
                    st2 == IF st1.joysticks[k].trigger_rumble_expiration # 0
                           THEN SDL_RumbleJoystickTriggers(st1, k, 0, 0, 0, drv_ok)
                           ELSE st1
                    st2b == CleanupSensorFusion(st2, k)
                    st3 == Emit(st2b, <<"drv_Close", st2.joysticks[k].instance_id, 0, 0>>)
                IN  SDL_UnlockJoysticks([st3 EXCEPT !.joysticks = RemoveAt(@, k), !.ret = 0])

(***************************************************************************)
(* Hot-plug.                                                               *)
(***************************************************************************)
SDL_PrivateJoystickAdded_anydevice(st, instance_id, device_player_index) ==
    IF st.quitting THEN st
    ELSE
      LET found == SDL_GetDriverAndJoystickIndex(st, instance_id)
          is_gamepad == found /\ st.devices[instance_id].gamepad
          p1 == IF found THEN device_player_index ELSE -1
          player_index == IF p1 < 0
                          THEN SDL_FindFreePlayerIndex(st.players)
                          ELSE p1
          st1 == IF player_index >= 0
                 THEN SDL_SetJoystickIDForPlayerIndex(st, player_index, instance_id)
                 ELSE st
          st2 == Emit(st1, <<"ev_added", instance_id, 0, 0>>)
      IN  IF is_gamepad THEN Emit(st2, <<"gamepad_added", instance_id, 0, 0>>) ELSE st2

SDL_PrivateJoystickAdded(st, instance_id, device_player_index) ==
    IF st.quitting THEN st
    ELSE
      LET found == SDL_GetDriverAndJoystickIndex(st, instance_id)
          is_gamepad == found /\ st.devices[instance_id].gamepad
          p1 == IF found THEN device_player_index ELSE -1
          player_index == IF p1 < 0 /\ is_gamepad
                          THEN SDL_FindFreePlayerIndex(st.players)
                          ELSE p1
          st1 == IF player_index >= 0
                 THEN SDL_SetJoystickIDForPlayerIndex(st, player_index, instance_id)
                 ELSE st
          st2 == Emit(st1, <<"ev_added", instance_id, 0, 0>>)
      IN  IF is_gamepad THEN Emit(st2, <<"gamepad_added", instance_id, 0, 0>>) ELSE st2

RECURSIVE RecenterAxes(_, _, _, _)
RecenterAxes(st, k, timestamp, i) ==
    IF i >= Len(st.joysticks[k].axes) THEN st
    ELSE LET info == st.joysticks[k].axes[i + 1]
         IN  RecenterAxes(IF info.has_initial_value
                          THEN SDL_SendJoystickAxis(st, k, timestamp, i, info.zero)
                          ELSE st,
                          k, timestamp, i + 1)

RECURSIVE RecenterButtons(_, _, _, _)
RecenterButtons(st, k, timestamp, i) ==
    IF i >= Len(st.joysticks[k].buttons) THEN st
    ELSE RecenterButtons(SDL_SendJoystickButton(st, k, timestamp, i, SDL_RELEASED),
                         k, timestamp, i + 1)

RECURSIVE RecenterHats(_, _, _, _)
RecenterHats(st, k, timestamp, i) ==
    IF i >= Len(st.joysticks[k].hats) THEN st
    ELSE RecenterHats(SDL_SendJoystickHat(st, k, timestamp, i, SDL_HAT_CENTERED),
                      k, timestamp, i + 1)

RECURSIVE RecenterTouchpads(_, _, _, _, _)
RecenterTouchpads(st, k, timestamp, i, j) ==
    IF i >= Len(st.joysticks[k].touchpads) THEN st
    ELSE IF j >= Len(st.joysticks[k].touchpads[i + 1])
    THEN RecenterTouchpads(st, k, timestamp, i + 1, 0)
    ELSE RecenterTouchpads(SDL_SendJoystickTouchpad(st, k, timestamp, i, j,
                                                    SDL_RELEASED, 0, 0, 0),
                           k, timestamp, i, j + 1)

SDL_PrivateJoystickForceRecentering_noaxes(st, k, timestamp) ==
    RecenterTouchpads(RecenterHats(RecenterButtons(st, k, timestamp, 0), k, timestamp, 0),
                      k, timestamp, 0, 0)

SDL_PrivateJoystickForceRecentering(st, k, timestamp) ==
    RecenterTouchpads(
        RecenterHats(RecenterButtons(RecenterAxes(st, k, timestamp, 0), k, timestamp, 0),
                     k, timestamp, 0),
        k, timestamp, 0, 0)

(* The handle is recentred but still reported as attached. *)
SDL_PrivateJoystickRemoved_attached(st, instance_id, timestamp) ==
    LET k == FindByInstance(st.joysticks, instance_id)
        st1 == IF k # 0
               THEN SDL_PrivateJoystickForceRecentering(st, k, timestamp)
               ELSE st
        st2 == Emit(Emit(st1, <<"gamepad_removed", instance_id, 0, 0>>),
                    <<"ev_removed", instance_id, 0, 0>>)
        player_index == SDL_GetPlayerIndexForJoystickID(st2.players, instance_id)
    IN  IF player_index >= 0
        THEN [st2 EXCEPT !.players[player_index + 1] = 0]
        ELSE st2

SDL_PrivateJoystickRemoved(st, instance_id, timestamp) ==
    LET k == FindByInstance(st.joysticks, instance_id)
        st1 == IF k # 0
               THEN [SDL_PrivateJoystickForceRecentering(st, k, timestamp)
                        EXCEPT !.joysticks[k].attached = FALSE]
               ELSE st
        st2 == Emit(Emit(st1, <<"gamepad_removed", instance_id, 0, 0>>),
                    <<"ev_removed", instance_id, 0, 0>>)
        player_index == SDL_GetPlayerIndexForJoystickID(st2.players, instance_id)
    IN  IF player_index >= 0
        THEN [st2 EXCEPT !.players[player_index + 1] = 0]
        ELSE st2

(***************************************************************************)
(* Public player-index setter.                                             *)
(***************************************************************************)
SDL_SetJoystickPlayerIndex_reassign(st0, hid, player_index) ==
    LET st == SDL_LockJoysticks(st0)
        k == FindByHandle(st.joysticks, hid)
    IN  IF MagicFails(st, hid) THEN CHECK_JOYSTICK_MAGIC(st, -1)
        ELSE SDL_UnlockJoysticks(
                [SDL_SetJoystickIDForPlayerIndex(
                    SDL_SetJoystickIDForPlayerIndex(st, -1, st.joysticks[k].instance_id),
                    player_index, st.joysticks[k].instance_id)
                   EXCEPT !.ret = 0])

SDL_SetJoystickPlayerIndex(st0, hid, player_index) ==
    LET st == SDL_LockJoysticks(st0)
        k == FindByHandle(st.joysticks, hid)
    IN  IF MagicFails(st, hid) THEN CHECK_JOYSTICK_MAGIC(st, -1)
        ELSE SDL_UnlockJoysticks(
                [SDL_SetJoystickIDForPlayerIndex(st, player_index, st.joysticks[k].instance_id)
                   EXCEPT !.ret = 0])

SDL_GetJoystickPlayerIndex(st0, hid) ==
    LET st == SDL_LockJoysticks(st0)
        k == FindByHandle(st.joysticks, hid)
    IN  IF MagicFails(st, hid) THEN CHECK_JOYSTICK_MAGIC(st, -1)
        ELSE SDL_UnlockJoysticks(
                [st EXCEPT !.ret = SDL_GetPlayerIndexForJoystickID(
                                       st.players, st.joysticks[k].instance_id)])

(***************************************************************************)
(* Queries on a handle.  An array element the code reads is logged as      *)
(* <<"read_axes" | "read_hats" | "read_buttons", instance id, index, 0>>.  *)
(* An index the comparison lets through although it lies outside the array *)
(* reads whatever is stored there: oob stands for that value.              *)
(***************************************************************************)
SDL_GetJoystickAxis(st0, hid, axis, oob) ==
    LET st == SDL_LockJoysticks(st0)
        k == FindByHandle(st.joysticks, hid)
    IN  IF MagicFails(st, hid) THEN CHECK_JOYSTICK_MAGIC(st, 0)
        ELSE
          LET joystick == st.joysticks[k]
              naxes == Len(joystick.axes)
          IN  IF axis < naxes
              THEN SDL_UnlockJoysticks(
                      [Emit(st, <<"read_axes", joystick.instance_id, axis, 0>>)
                         EXCEPT !.ret = IF axis >= 0 THEN joystick.axes[axis + 1].value
                                        ELSE oob])
              ELSE SDL_UnlockJoysticks(
                      [Emit(st, <<"SDL_SetError", joystick.instance_id, 0, 0>>)
                         EXCEPT !.ret = 0])

(* The result is <<retval, *state>>; *state is only written on success. *)
SDL_GetJoystickAxisInitialState(st0, hid, axis, oob) ==
    LET st == SDL_LockJoysticks(st0)
        k == FindByHandle(st.joysticks, hid)
    IN  IF MagicFails(st, hid) THEN CHECK_JOYSTICK_MAGIC(st, <<FALSE, NULL>>)
        ELSE
          LET joystick == st.joysticks[k]
              naxes == Len(joystick.axes)
          IN  IF axis >= naxes
              THEN SDL_UnlockJoysticks(
                      [Emit(st, <<"SDL_SetError", joystick.instance_id, 0, 0>>)
                         EXCEPT !.ret = <<FALSE, NULL>>])
              ELSE SDL_UnlockJoysticks(
                      [Emit(st, <<"read_axes", joystick.instance_id, axis, 0>>)
                         EXCEPT !.ret =
                           IF axis >= 0
                           THEN <<joystick.axes[axis + 1].has_initial_value,
                                  joystick.axes[axis + 1].initial_value>>
                           ELSE <<oob # 0, oob>>])

SDL_GetJoystickHat(st0, hid, hat, oob) ==
    LET st == SDL_LockJoysticks(st0)
        k == FindByHandle(st.joysticks, hid)
    IN  IF MagicFails(st, hid) THEN CHECK_JOYSTICK_MAGIC(st, 0)
        ELSE
          LET joystick == st.joysticks[k]
              nhats == Len(joystick.hats)
          IN  IF hat < nhats
              THEN SDL_UnlockJoysticks(
                      [Emit(st, <<"read_hats", joystick.instance_id, hat, 0>>)
                         EXCEPT !.ret = IF hat >= 0 THEN joystick.hats[hat + 1] ELSE oob])
              ELSE SDL_UnlockJoysticks(
                      [Emit(st, <<"SDL_SetError", joystick.instance_id, 0, 0>>)
                         EXCEPT !.ret = 0])

SDL_GetJoystickButton(st0, hid, button, oob) ==
    LET st == SDL_LockJoysticks(st0)
        k == FindByHandle(st.joysticks, hid)
    IN  IF MagicFails(st, hid) THEN CHECK_JOYSTICK_MAGIC(st, 0)
        ELSE
          LET joystick == st.joysticks[k]
              nbuttons == Len(joystick.buttons)
          IN  IF button < nbuttons
              THEN SDL_UnlockJoysticks(
                      [Emit(st, <<"read_buttons", joystick.instance_id, button, 0>>)
                         EXCEPT !.ret = IF button >= 0 THEN joystick.buttons[button + 1]
                                        ELSE oob])
              ELSE SDL_UnlockJoysticks(
                      [Emit(st, <<"SDL_SetError", joystick.instance_id, 0, 0>>)
                         EXCEPT !.ret = 0])

SDL_JoystickConnected(st0, hid) ==
    LET st == SDL_LockJoysticks(st0)
        k == FindByHandle(st.joysticks, hid)
    IN  IF MagicFails(st, hid) THEN CHECK_JOYSTICK_MAGIC(st, FALSE)
        ELSE SDL_UnlockJoysticks([st EXCEPT !.ret = st.joysticks[k].attached])

SDL_GetJoystickInstanceID(st0, hid) ==
    LET st == SDL_LockJoysticks(st0)
        k == FindByHandle(st.joysticks, hid)
    IN  IF MagicFails(st, hid) THEN CHECK_JOYSTICK_MAGIC(st, 0)
        ELSE SDL_UnlockJoysticks([st EXCEPT !.ret = st.joysticks[k].instance_id])

(* Every call reaches the driver. *)
SDL_SetJoystickLED_always(st0, hid, colour, drv_ok) ==
    LET st == SDL_LockJoysticks(st0)
        k == FindByHandle(st.joysticks, hid)
    IN  IF MagicFails(st, hid) THEN CHECK_JOYSTICK_MAGIC(st, -1)
        ELSE
          LET joystick == st.joysticks[k]
              isfreshvalue == colour # joystick.led
              st1 == IF TRUE
                     THEN [Emit(st, <<"drv_SetLED", joystick.instance_id, colour, 0>>)
                             EXCEPT !.joysticks[k].led_expiration =
                                        st.now + SDL_LED_MIN_REPEAT_MS,
                                    !.ret = IF drv_ok THEN 0 ELSE -1]
                     ELSE [st EXCEPT !.ret = 0]
          IN  SDL_UnlockJoysticks([st1 EXCEPT !.joysticks[k].led = colour])

(* A colour is <<red, green, blue>>; drv_ok: the driver's SetLED succeeds. *)
SDL_SetJoystickLED(st0, hid, colour, drv_ok) ==
    LET st == SDL_LockJoysticks(st0)
        k == FindByHandle(st.joysticks, hid)
    IN  IF MagicFails(st, hid) THEN CHECK_JOYSTICK_MAGIC(st, -1)
        ELSE
          LET joystick == st.joysticks[k]
              isfreshvalue == colour # joystick.led
              st1 == IF isfreshvalue \/ st.now >= joystick.led_expiration
                     THEN [Emit(st, <<"drv_SetLED", joystick.instance_id, colour, 0>>)
                             EXCEPT !.joysticks[k].led_expiration =
                                        st.now + SDL_LED_MIN_REPEAT_MS,
                                    !.ret = IF drv_ok THEN 0 ELSE -1]
                     ELSE [st EXCEPT !.ret = 0]
          IN  SDL_UnlockJoysticks([st1 EXCEPT !.joysticks[k].led = colour])

(***************************************************************************)
(* The update cycle.                                                       *)
(***************************************************************************)
(* Lines 1959-1963: an expired rumble is stopped. *)
ExpireRumble_early(st, k, drv_ok) ==
    LET joystick == st.joysticks[k]
    IN  IF joystick.rumble_expiration # 0
        THEN [SDL_RumbleJoystick(st, k, 0, 0, 0, drv_ok)
                 EXCEPT !.joysticks[k].rumble_resend = 0]
        ELSE st

ExpireRumble(st, k, drv_ok) ==
    LET joystick == st.joysticks[k]
    IN  IF joystick.rumble_expiration # 0 /\ st.now >= joystick.rumble_expiration
        THEN [SDL_RumbleJoystick(st, k, 0, 0, 0, drv_ok)
                 EXCEPT !.joysticks[k].rumble_resend = 0]
        ELSE st

(* Lines 1965-1971: a due resend repeats the recorded magnitudes. *)
ResendRumble_norearm(st, k) ==
    LET joystick == st.joysticks[k]
    IN  IF joystick.rumble_resend # 0 /\ st.now >= joystick.rumble_resend
        THEN Emit(st, <<"drv_Rumble", joystick.instance_id,
                        joystick.low_frequency_rumble, joystick.high_frequency_rumble>>)
        ELSE st

ResendRumble(st, k) ==
    LET joystick == st.joysticks[k]
        resend == st.now + SDL_RUMBLE_RESEND_MS
    IN  IF joystick.rumble_resend # 0 /\ st.now >= joystick.rumble_resend
        THEN Emit([st EXCEPT !.joysticks[k].rumble_resend =
                                 IF resend = 0 THEN 1 ELSE resend],
                  <<"drv_Rumble", joystick.instance_id,
                    joystick.low_frequency_rumble, joystick.high_frequency_rumble>>)
        ELSE st

(* Lines 1973-1975: an expired trigger rumble is stopped. *)
ExpireTriggerRumble(st, k, drv_ok) ==
    LET joystick == st.joysticks[k]
    IN  IF /\ joystick.trigger_rumble_expiration # 0
           /\ st.now >= joystick.trigger_rumble_expiration
        THEN SDL_RumbleJoystickTriggers(st, k, 0, 0, 0, drv_ok)
        ELSE st

UpdateOne_attachedonly(st, k, timestamp, samples, drv_ok) ==
    IF st.joysticks[k].attached
    THEN ExpireTriggerRumble(
            ResendRumble(ExpireRumble(DriverUpdate(st, k, timestamp, samples), k, drv_ok), k),
            k, drv_ok)
    ELSE st

UpdateOne(st, k, timestamp, samples, drv_ok) ==
    LET st1 == IF st.joysticks[k].attached
               THEN DriverUpdate(st, k, timestamp, samples)
               ELSE st
    IN  ExpireTriggerRumble(ResendRumble(ExpireRumble(st1, k, drv_ok), k), k, drv_ok)

RECURSIVE UpdateLoop(_, _, _, _, _)
UpdateLoop(st, k, timestamp, samples, drv_ok) ==
    IF k > Len(st.joysticks) THEN st
    ELSE UpdateLoop(UpdateOne(st, k, timestamp, samples, drv_ok),
                    k + 1, timestamp, samples, drv_ok)

(* Lines 1980-1990: one handle's update-complete notification. *)
SendUpdateComplete_keep(st, k) ==
    LET joystick == st.joysticks[k]
    IN  IF joystick.update_complete # 0
        THEN Emit(st, <<"ev_update_complete", joystick.instance_id,
                        joystick.update_complete, 0>>)
        ELSE st

SendUpdateComplete(st, k) ==
    LET joystick == st.joysticks[k]
    IN  IF joystick.update_complete # 0
        THEN Emit([st EXCEPT !.joysticks[k].update_complete = 0],
                  <<"ev_update_complete", joystick.instance_id,
                    joystick.update_complete, 0>>)
        ELSE st

RECURSIVE UpdateCompleteLoop(_, _)
UpdateCompleteLoop(st, k) ==
    IF k > Len(st.joysticks) THEN st
    ELSE UpdateCompleteLoop(SendUpdateComplete(st, k), k + 1)

RECURSIVE DetectLoop(_, _)
DetectLoop(st, i) ==
    IF i > NumDrivers THEN st
    ELSE DetectLoop(Emit(st, <<"drv_Detect", 0, i, 0>>), i + 1)

(* update_complete_enabled is what SDL_EventEnabled answers for the *)
(* update-complete event on line 1978.                              *)
SDL_UpdateJoysticks_detectfirst(st, timestamp, samples, drv_ok, update_complete_enabled) ==
    IF ~st.initialized THEN st
    ELSE LET updated == UpdateLoop(DetectLoop(SDL_LockJoysticks(st), 1),
                                   1, timestamp, samples, drv_ok)
             notified == IF update_complete_enabled
                         THEN UpdateCompleteLoop(updated, 1)
                         ELSE updated
         IN  SDL_UnlockJoysticks([notified EXCEPT !.ret = 0])

SDL_UpdateJoysticks(st, timestamp, samples, drv_ok, update_complete_enabled) ==
    IF ~st.initialized THEN st
    ELSE LET updated == UpdateLoop(SDL_LockJoysticks(st), 1, timestamp, samples, drv_ok)
             notified == IF update_complete_enabled
                         THEN UpdateCompleteLoop(updated, 1)
                         ELSE updated
         IN  SDL_UnlockJoysticks([DetectLoop(notified, 1) EXCEPT !.ret = 0])

(***************************************************************************)
(* Subsystem init and quit.                                                *)
(***************************************************************************)
Min(S) == CHOOSE x \in S : \A y \in S : x <= y

RECURSIVE RemoveAllDevices(_, _, _)
RemoveAllDevices(st, ids, timestamp) ==
    IF ids = {} THEN st
    ELSE RemoveAllDevices(SDL_PrivateJoystickRemoved(st, Min(ids), timestamp),
                          ids \ {Min(ids)}, timestamp)

RECURSIVE CloseAllJoysticks(_, _)
CloseAllJoysticks(st, drv_ok) ==
    IF st.joysticks = <<>> THEN st
    ELSE CloseAllJoysticks(
            SDL_CloseJoystick([st EXCEPT !.joysticks[1].ref_count = 1],
                              st.joysticks[1].hid, drv_ok),
            drv_ok)

RECURSIVE DriverQuitLoop(_, _)
DriverQuitLoop(st, i) ==
    IF i < 1 THEN st
    ELSE DriverQuitLoop(Emit(st, <<"drv_Quit", 0, i, 0>>), i - 1)

NoDevices == [i \in {} |-> 0]

(* The player-index table is not released. *)
SDL_QuitJoysticks_keepplayers(st, timestamp, drv_ok) ==
    LET st1 == [SDL_LockJoysticks(st) EXCEPT !.quitting = TRUE]
        st2 == RemoveAllDevices(st1, DOMAIN st1.devices, timestamp)
        st3 == CloseAllJoysticks(st2, drv_ok)
        st4 == [DriverQuitLoop(st3, NumDrivers) EXCEPT !.devices = NoDevices]
    IN  SDL_UnlockJoysticks([st4 EXCEPT !.players = @,
                                        !.quitting = FALSE,
                                        !.initialized = FALSE,
                                        !.ret = 0])

SDL_QuitJoysticks(st, timestamp, drv_ok) ==
    LET st1 == [SDL_LockJoysticks(st) EXCEPT !.quitting = TRUE]
        st2 == RemoveAllDevices(st1, DOMAIN st1.devices, timestamp)
        st3 == CloseAllJoysticks(st2, drv_ok)
        st4 == [DriverQuitLoop(st3, NumDrivers) EXCEPT !.devices = NoDevices]
    IN  SDL_UnlockJoysticks([st4 EXCEPT !.players = <<>>,
                                        !.quitting = FALSE,
                                        !.initialized = FALSE,
                                        !.ret = 0])

RECURSIVE DriverInitLoop(_, _, _)
DriverInitLoop(st, i, init_ok) ==
    IF i > NumDrivers THEN st
    ELSE DriverInitLoop(Emit(st, <<"drv_Init", 0, i, IF i \in init_ok THEN 0 ELSE -1>>),
                        i + 1, init_ok)

(* The status is that of the last driver alone. *)
SDL_InitJoysticks_last(st, init_ok, timestamp, drv_ok) ==
    LET st1 == SDL_UnlockJoysticks(
                 DriverInitLoop([SDL_LockJoysticks(st) EXCEPT !.initialized = TRUE],
                                1, init_ok))
        status == IF NumDrivers \in init_ok THEN 0 ELSE -1
    IN  IF status < 0
        THEN [SDL_QuitJoysticks(st1, timestamp, drv_ok) EXCEPT !.ret = status]
        ELSE [st1 EXCEPT !.ret = status]

(* init_ok: the drivers whose Init succeeds. *)
SDL_InitJoysticks(st, init_ok, timestamp, drv_ok) ==
    LET st1 == SDL_UnlockJoysticks(
                 DriverInitLoop([SDL_LockJoysticks(st) EXCEPT !.initialized = TRUE],
                                1, init_ok))
        status == IF init_ok \cap (1..NumDrivers) # {} THEN 0 ELSE -1
    IN  IF status < 0
        THEN [SDL_QuitJoysticks(st1, timestamp, drv_ok) EXCEPT !.ret = status]
        ELSE [st1 EXCEPT !.ret = status]

SDL_JoystickAllowBackgroundEventsChanged(st, hint) ==
    [st EXCEPT !.allow_bg = hint]

(***************************************************************************)
(* Actions: one handler each.                                              *)
(***************************************************************************)
(***************************************************************************)
(* The joystick lock.  Every statement of SDL_LockJoysticks and            *)
(* SDL_UnlockJoysticks is a step of the calling thread.  SDL_LockMutex and *)
(* SDL_UnlockMutex do nothing on NULL; on a destroyed mutex their          *)
(* behaviour is undefined: the lock call may return as if it had acquired  *)
(* (LockAcquireDestroyed) or never return (no step).                       *)
(***************************************************************************)
Threads == 1..NumThreads
MainThread == 1

IdleThread ==
    [pc |-> "idle", op |-> "none", depth |-> 0, target |-> NULL,
     joystick_lock |-> NULL, last_unlock |-> FALSE]

NewMutex == [owner |-> 0, count |-> 0, destroyed |-> FALSE]

LockIdle ==
    /\ SDL_joystick_lock = NULL
    /\ SDL_joystick_lock_pending = 0
    /\ SDL_joysticks_locked = 0
    /\ mutexes = <<>>
    /\ threads = [t \in Threads |-> IdleThread]

(* SDL_UnlockMutex(m) by thread t. *)
SDL_UnlockMutex(ms, m, t) ==
    IF m = NULL THEN ms
    ELSE IF ms[m].destroyed \/ ms[m].owner # t THEN ms
    ELSE [ms EXCEPT ![m].count = @ - 1,
                    ![m].owner = IF ms[m].count = 1 THEN 0 ELSE t]

(* Where a thread goes when SDL_UnlockJoysticks returns. *)
AfterUnlock(th) ==
    IF th.op = "query" /\ th.depth > 0
    THEN [th EXCEPT !.pc = "body", !.last_unlock = FALSE]
    ELSE [IdleThread EXCEPT !.depth = th.depth]

(* A thread enters SDL_InitJoysticks, SDL_QuitJoysticks (the main thread,  *)
(* as SDL_InitSubSystem and SDL_QuitSubSystem decide) or any other public  *)
(* operation.                                                              *)
StartOp(t, op) ==
    /\ threads[t].pc = "idle"
    /\ threads[t].depth = 0
    /\ op = "init" => (t = MainThread /\ ~SDL_joysticks_initialized)
    /\ op = "quit" => (t = MainThread /\ SDL_joysticks_initialized)
    /\ threads' = [threads EXCEPT ![t].op = op,
                                  ![t].pc = IF op = "init" THEN "I0" ELSE "L1"]
    /\ UNCHANGED <<SDL_joystick_lock, SDL_joystick_lock_pending, SDL_joysticks_locked,
                   mutexes, SDL_joysticks_initialized>>

(* Lines 321-323. *)
InitCreateLock(t) ==
    /\ threads[t].pc = "I0"
    /\ IF SDL_joystick_lock = NULL
       THEN /\ Len(mutexes) < MaxMutex
            /\ mutexes' = Append(mutexes, NewMutex)
            /\ SDL_joystick_lock' = Len(mutexes) + 1
       ELSE UNCHANGED <<mutexes, SDL_joystick_lock>>
    /\ threads' = [threads EXCEPT ![t].pc = "L1"]
    /\ UNCHANGED <<SDL_joystick_lock_pending, SDL_joysticks_locked, SDL_joysticks_initialized>>

(* Line 143. *)
LockIncPending(t) ==
    /\ threads[t].pc = "L1"
    /\ SDL_joystick_lock_pending' = SDL_joystick_lock_pending + 1
    /\ threads' = [threads EXCEPT ![t].pc = "L2"]
    /\ UNCHANGED <<SDL_joystick_lock, SDL_joysticks_locked, mutexes, SDL_joysticks_initialized>>

(* Line 144: the argument of SDL_LockMutex is read. *)
LockReadMutex(t) ==
    /\ threads[t].pc = "L2"
    /\ threads' = [threads EXCEPT ![t].target = SDL_joystick_lock,
                                  ![t].pc = IF SDL_joystick_lock = NULL THEN "L3" ELSE "L2w"]
    /\ UNCHANGED <<SDL_joystick_lock, SDL_joystick_lock_pending, SDL_joysticks_locked,
                   mutexes, SDL_joysticks_initialized>>

(* Lines 144 and 169: SDL_LockMutex returns with the (recursive) mutex. *)
LockAcquire(t) ==
    /\ threads[t].pc \in {"L2w", "U3w"}
    /\ LET m == threads[t].target
       IN  /\ ~mutexes[m].destroyed
           /\ mutexes[m].owner \in {0, t}
           /\ mutexes' = [mutexes EXCEPT ![m].owner = t, ![m].count = @ + 1]
    /\ threads' = [threads EXCEPT ![t].pc = IF threads[t].pc = "L2w" THEN "L3" ELSE "U4"]
    /\ UNCHANGED <<SDL_joystick_lock, SDL_joystick_lock_pending, SDL_joysticks_locked,
                   SDL_joysticks_initialized>>

LockAcquireDestroyed(t) ==
    /\ threads[t].pc \in {"L2w", "U3w"}
    /\ mutexes[threads[t].target].destroyed
    /\ threads' = [threads EXCEPT ![t].pc = IF threads[t].pc = "L2w" THEN "L3" ELSE "U4"]
    /\ UNCHANGED <<SDL_joystick_lock, SDL_joystick_lock_pending, SDL_joysticks_locked,
                   mutexes, SDL_joysticks_initialized>>

(* Line 145. *)
LockDecPending(t) ==
    /\ threads[t].pc = "L3"
    /\ SDL_joystick_lock_pending' = SDL_joystick_lock_pending - 1
    /\ threads' = [threads EXCEPT ![t].pc = "L4"]
    /\ UNCHANGED <<SDL_joystick_lock, SDL_joysticks_locked, mutexes, SDL_joysticks_initialized>>

(* Line 147; SDL_LockJoysticks returns. *)
LockCount(t) ==
    /\ threads[t].pc = "L4"
    /\ SDL_joysticks_locked' = SDL_joysticks_locked + 1
    /\ threads' = [threads EXCEPT ![t].pc = "body", ![t].depth = @ + 1]
    /\ UNCHANGED <<SDL_joystick_lock, SDL_joystick_lock_pending, mutexes,
                   SDL_joysticks_initialized>>

(* Line 333, then the SDL_UnlockJoysticks of line 347. *)
BodyInit(t) ==
    /\ threads[t].pc = "body"
    /\ threads[t].op = "init"
    /\ SDL_joysticks_initialized' = TRUE
    /\ threads' = [threads EXCEPT ![t].pc = "U1"]
    /\ UNCHANGED <<SDL_joystick_lock, SDL_joystick_lock_pending, SDL_joysticks_locked, mutexes>>

(* Line 1571, then the SDL_UnlockJoysticks of line 1573. *)
BodyQuit(t) ==
    /\ threads[t].pc = "body"
    /\ threads[t].op = "quit"
    /\ SDL_joysticks_initialized' = FALSE
    /\ threads' = [threads EXCEPT ![t].pc = "U1"]
    /\ UNCHANGED <<SDL_joystick_lock, SDL_joystick_lock_pending, SDL_joysticks_locked, mutexes>>

(* A public operation calls another one that locks again. *)
BodyNest(t) ==
    /\ threads[t].pc = "body"
    /\ threads[t].op = "query"
    /\ threads[t].depth < MaxDepth
    /\ threads' = [threads EXCEPT ![t].pc = "L1"]
    /\ UNCHANGED <<SDL_joystick_lock, SDL_joystick_lock_pending, SDL_joysticks_locked,
                   mutexes, SDL_joysticks_initialized>>

BodyUnlock(t) ==
    /\ threads[t].pc = "body"
    /\ threads[t].op = "query"
    /\ threads' = [threads EXCEPT ![t].pc = "U1"]
    /\ UNCHANGED <<SDL_joystick_lock, SDL_joystick_lock_pending, SDL_joysticks_locked,
                   mutexes, SDL_joysticks_initialized>>

(* Line 154. *)
UnlockCount(t) ==
    /\ threads[t].pc = "U1"
    /\ SDL_joysticks_locked' = SDL_joysticks_locked - 1
    /\ threads' = [threads EXCEPT ![t].pc = "U2", ![t].depth = @ - 1]
    /\ UNCHANGED <<SDL_joystick_lock, SDL_joystick_lock_pending, mutexes,
                   SDL_joysticks_initialized>>

(* Lines 156-161 and the test of line 166. *)
UnlockCheckLast(t) ==
    /\ threads[t].pc = "U2"
    /\ LET last_unlock == /\ ~SDL_joysticks_initialized
                          /\ SDL_joysticks_locked = 0
                          /\ SDL_joystick_lock_pending = 0
       IN  threads' = [threads EXCEPT ![t].last_unlock = last_unlock,
                                      ![t].pc = IF last_unlock THEN "U3" ELSE "U7"]
    /\ UNCHANGED <<SDL_joystick_lock, SDL_joystick_lock_pending, SDL_joysticks_locked,
                   mutexes, SDL_joysticks_initialized>>

(* Lines 167 and 169: the pointer is copied and handed to SDL_LockMutex. *)
UnlockTeardownRead(t) ==
    /\ threads[t].pc = "U3"
    /\ threads' = [threads EXCEPT ![t].joystick_lock = SDL_joystick_lock,
                                  ![t].target = SDL_joystick_lock,
                                  ![t].pc = IF SDL_joystick_lock = NULL THEN "U4" ELSE "U3w"]
    /\ UNCHANGED <<SDL_joystick_lock, SDL_joystick_lock_pending, SDL_joysticks_locked,
                   mutexes, SDL_joysticks_initialized>>

(* Lines 171-173. *)
UnlockTeardownRelease(t) ==
    /\ threads[t].pc = "U4"
    /\ mutexes' = SDL_UnlockMutex(mutexes, SDL_joystick_lock, t)
    /\ SDL_joystick_lock' = NULL
    /\ threads' = [threads EXCEPT ![t].pc = "U5"]
    /\ UNCHANGED <<SDL_joystick_lock_pending, SDL_joysticks_locked, SDL_joysticks_initialized>>

(* Line 175. *)
UnlockTeardownReleaseLocal(t) ==
    /\ threads[t].pc = "U5"
    /\ mutexes' = SDL_UnlockMutex(mutexes, threads[t].joystick_lock, t)
    /\ threads' = [threads EXCEPT ![t].pc = "U6"]
    /\ UNCHANGED <<SDL_joystick_lock, SDL_joystick_lock_pending, SDL_joysticks_locked,
                   SDL_joysticks_initialized>>

(* Line 176; SDL_UnlockJoysticks returns. *)
UnlockDestroy(t) ==
    /\ threads[t].pc = "U6"
    /\ mutexes' = IF threads[t].joystick_lock = NULL THEN mutexes
                  ELSE [mutexes EXCEPT ![threads[t].joystick_lock].destroyed = TRUE]
    /\ threads' = [threads EXCEPT ![t] = AfterUnlock(@)]
    /\ UNCHANGED <<SDL_joystick_lock, SDL_joystick_lock_pending, SDL_joysticks_locked,
                   SDL_joysticks_initialized>>

(* Line 178; SDL_UnlockJoysticks returns. *)
UnlockPlain(t) ==
    /\ threads[t].pc = "U7"
    /\ mutexes' = SDL_UnlockMutex(mutexes, SDL_joystick_lock, t)
    /\ threads' = [threads EXCEPT ![t] = AfterUnlock(@)]
    /\ UNCHANGED <<SDL_joystick_lock, SDL_joystick_lock_pending, SDL_joysticks_locked,
                   SDL_joysticks_initialized>>

(***************************************************************************)
(* GUID codec.  big is the host's byte order (SDL_BYTEORDER == SDL_BIG_ENDIAN). *)
(***************************************************************************)
SDL_HARDWARE_BUS_VIRTUAL == 255

(* x ^ (1 << k) *)
ToggleBit(x, k) ==
    IF (x \div (2 ^ k)) % 2 = 1 THEN x - (2 ^ k) ELSE x + (2 ^ k)

(* a ^ b for bytes *)
ByteXor(a, b) ==
    LET F[k \in 0..8] ==
          IF k = 0 THEN a
          ELSE IF (b \div (2 ^ (k - 1))) % 2 = 1 THEN ToggleBit(F[k - 1], k - 1)
          ELSE F[k - 1]
    IN  F[8]

XorTable == [a \in 0..255 |-> [b \in 0..255 |-> ByteXor(a, b)]]

(* SDL_crc16's per-byte step: eight rounds of the reflected polynomial     *)
(* 0xA001 (bits 15, 13 and 0).                                             *)
crc16_for_byte(r) ==
    LET F[i \in 0..8] ==
          IF i = 0 THEN 0
          ELSE LET crc == F[i - 1]
                   half == crc \div 2
               IN  IF (crc + (r \div (2 ^ (i - 1)))) % 2 = 1
                   THEN ToggleBit(ToggleBit(ToggleBit(half, 15), 13), 0)
                   ELSE half
    IN  F[8]

Crc16Table == [r \in 0..255 |-> crc16_for_byte(r)]

(* crc = crc16_for_byte((Uint8)crc ^ data[i]) ^ crc >> 8, over the bytes. *)
SDL_crc16(crc, data) ==
    LET F[i \in 0..Len(data)] ==
          IF i = 0 THEN crc
          ELSE LET c == F[i - 1]
                   t == Crc16Table[XorTable[c % 256][data[i]]]
               IN  (t \div 256) * 256 + XorTable[t % 256][c \div 256]
    IN  F[Len(data)]

Swap16(x) == (x % 256) * 256 + (x \div 256)

SDL_SwapLE16(x, big) == IF big THEN Swap16(x) ELSE x

(* guid16[i] read and written as a host Uint16 over bytes 2i and 2i+1. *)
Load16(data, i, big) ==
    IF big THEN data[2 * i + 1] * 256 + data[2 * i + 2]
    ELSE data[2 * i + 2] * 256 + data[2 * i + 1]

Store16(data, i, x, big) ==
    [data EXCEPT ![2 * i + 1] = IF big THEN x \div 256 ELSE (x % 256),
                 ![2 * i + 2] = IF big THEN (x % 256) ELSE x \div 256]

ZeroGuid == [i \in 1..16 |-> 0]

(* SDL_strlcpy(dst + offset, src, maxlen) into the byte array. *)
SDL_strlcpy(data, offset, src, maxlen) ==
    LET n == SDL_min(Len(src), maxlen - 1)
    IN  [i \in 1..16 |->
           IF i > offset /\ i <= offset + n THEN src[i - offset]
           ELSE IF i = offset + n + 1 /\ maxlen > 0 THEN 0
           ELSE data[i]]

(* The name is copied into the bytes the signature has already claimed. *)
SDL_CreateJoystickGUID_nospace(bus, vendor, product, version, name, driver_signature, driver_data, big) ==
    LET g1 == Store16(ZeroGuid, 0, SDL_SwapLE16(bus, big), big)
        g2 == Store16(g1, 1, SDL_SwapLE16(SDL_crc16(0, name), big), big)
    IN  IF vendor # 0 /\ product # 0
        THEN LET g3 == Store16(g2, 2, SDL_SwapLE16(vendor, big), big)
                 g4 == Store16(g3, 3, 0, big)
                 g5 == Store16(g4, 4, SDL_SwapLE16(product, big), big)
                 g6 == Store16(g5, 5, 0, big)
                 g7 == Store16(g6, 6, SDL_SwapLE16(version, big), big)
             IN  [g7 EXCEPT ![15] = driver_signature, ![16] = driver_data]
        ELSE LET available_space == 16 - 4
                 g3 == IF driver_signature # 0
                       THEN [g2 EXCEPT ![15] = driver_signature, ![16] = driver_data]
                       ELSE g2
             IN  SDL_strlcpy(g3, 4, name, available_space)

SDL_CreateJoystickGUID(bus, vendor, product, version, name, driver_signature, driver_data, big) ==
    LET g1 == Store16(ZeroGuid, 0, SDL_SwapLE16(bus, big), big)
        g2 == Store16(g1, 1, SDL_SwapLE16(SDL_crc16(0, name), big), big)
    IN  IF vendor # 0 /\ product # 0
        THEN LET g3 == Store16(g2, 2, SDL_SwapLE16(vendor, big), big)
                 g4 == Store16(g3, 3, 0, big)
                 g5 == Store16(g4, 4, SDL_SwapLE16(product, big), big)
                 g6 == Store16(g5, 5, 0, big)
                 g7 == Store16(g6, 6, SDL_SwapLE16(version, big), big)
             IN  [g7 EXCEPT ![15] = driver_signature, ![16] = driver_data]
        ELSE LET available_space == IF driver_signature # 0 THEN 16 - 4 - 2 ELSE 16 - 4
                 g3 == IF driver_signature # 0
                       THEN [g2 EXCEPT ![15] = driver_signature, ![16] = driver_data]
                       ELSE g2
             IN  SDL_strlcpy(g3, 4, name, available_space)

GuidInfoNoSwap(data, big) ==
    LET bus == SDL_SwapLE16(Load16(data, 0, big), big)
        known == bus < 32 \/ bus = SDL_HARDWARE_BUS_VIRTUAL
    IN  IF known /\ Load16(data, 3, big) = 0 /\ Load16(data, 5, big) = 0
        THEN [vendor |-> Load16(data, 2, big),
              product |-> Load16(data, 4, big),
              version |-> Load16(data, 6, big),
              crc16 |-> Load16(data, 1, big)]
        ELSE IF known
        THEN [vendor |-> 0, product |-> 0, version |-> 0,
              crc16 |-> Load16(data, 1, big)]
        ELSE [vendor |-> 0, product |-> 0, version |-> 0, crc16 |-> 0]

SDL_GetJoystickGUIDInfo(data, big) ==
    LET bus == SDL_SwapLE16(Load16(data, 0, big), big)
        known == bus < 32 \/ bus = SDL_HARDWARE_BUS_VIRTUAL
    IN  IF known /\ Load16(data, 3, big) = 0 /\ Load16(data, 5, big) = 0
        THEN [vendor |-> SDL_SwapLE16(Load16(data, 2, big), big),
              product |-> SDL_SwapLE16(Load16(data, 4, big), big),
              version |-> SDL_SwapLE16(Load16(data, 6, big), big),
              crc16 |-> SDL_SwapLE16(Load16(data, 1, big), big)]
        ELSE IF known
        THEN [vendor |-> 0, product |-> 0, version |-> 0,
              crc16 |-> SDL_SwapLE16(Load16(data, 1, big), big)]
        ELSE [vendor |-> 0, product |-> 0, version |-> 0, crc16 |-> 0]

NoGuidArgs ==
    [bus |-> 0, vendor |-> 0, product |-> 0, version |-> 0, name |-> <<>>,
     driver_signature |-> 0, driver_data |-> 0, big |-> FALSE]

NoGuidInfo == [vendor |-> 0, product |-> 0, version |-> 0, crc16 |-> 0]

GuidIdle ==
    /\ guid_pc = "idle"
    /\ guid_args = NoGuidArgs
    /\ guid = ZeroGuid
    /\ guid_info = NoGuidInfo

IDs == 1..MaxID
Timestamps == 1..MaxTs
NoSamples == {<<>>}

InitJoysticks(init_ok, timestamp) ==
    /\ ~SDL_joysticks_initialized
    /\ Commit(SDL_InitJoysticks(Cur, init_ok, timestamp, TRUE))
    /\ UNCHANGED <<balance, opened_as>>

QuitJoysticks(timestamp, drv_ok) ==
    /\ SDL_joysticks_initialized
    /\ Commit(SDL_QuitJoysticks(Cur, timestamp, drv_ok))
    /\ balance' = [i \in IDs |-> 0]
    /\ opened_as' = [i \in IDs |-> {}]

(* A driver reports a new device: it enters the driver's list under a fresh *)
(* instance id and the driver calls SDL_PrivateJoystickAdded.               *)
JoystickAdded(gamepad, virtual, centered, device_player_index) ==
    /\ SDL_joysticks_initialized
    /\ next_id <= MaxID
    /\ LET st0 == [Cur EXCEPT
                     !.devices = [i \in DOMAIN devices \cup {next_id} |->
                                    IF i = next_id
                                    THEN [gamepad |-> gamepad, virtual |-> virtual,
                                          centered |-> centered,
                                          naxes |-> NumAxes]
                                    ELSE devices[i]],
                     !.next_id = @ + 1]
       IN  Commit(SDL_PrivateJoystickAdded(st0, next_id, device_player_index))
    /\ UNCHANGED <<balance, opened_as>>

(* A driver reports a device gone: it leaves the driver's list and the *)
(* driver calls SDL_PrivateJoystickRemoved.                            *)
JoystickRemoved(instance_id, timestamp) ==
    /\ instance_id \in DOMAIN devices
    /\ LET st0 == [Cur EXCEPT
                     !.devices = [i \in DOMAIN devices \ {instance_id} |-> devices[i]]]
       IN  Commit(SDL_PrivateJoystickRemoved(st0, instance_id, timestamp))
    /\ UNCHANGED <<balance, opened_as>>

OpenJoystick(instance_id, outcome, timestamp, samples) ==
    /\ LET found == FindByInstance(SDL_joysticks, instance_id)
       IN  IF found # 0 THEN SDL_joysticks[found].ref_count < MaxRef
           ELSE next_hid <= MaxHid
    /\ LET st1 == SDL_OpenJoystick(Cur, instance_id, outcome, timestamp, samples)
       IN  /\ Commit(st1)
           /\ IF st1.ret # NULL
              THEN /\ balance' = [balance EXCEPT ![instance_id] = @ + 1]
                   /\ opened_as' = [opened_as EXCEPT ![instance_id] = @ \cup {st1.ret}]
              ELSE UNCHANGED <<balance, opened_as>>

CloseJoystick(hid, drv_ok) ==
    /\ LET k == FindByHandle(SDL_joysticks, hid)
       IN  /\ Commit(SDL_CloseJoystick(Cur, hid, drv_ok))
           /\ IF k # 0
              THEN LET id == SDL_joysticks[k].instance_id
                   IN  /\ balance' = [balance EXCEPT ![id] = @ - 1]
                       /\ opened_as' = [opened_as EXCEPT ![id] =
                                          IF balance[id] - 1 = 0 THEN {} ELSE @]
              ELSE UNCHANGED <<balance, opened_as>>

SetJoystickPlayerIndex(hid, player_index) ==
    /\ Commit(SDL_SetJoystickPlayerIndex(Cur, hid, player_index))
    /\ UNCHANGED <<balance, opened_as>>

UpdateJoysticks(timestamp, samples, drv_ok, update_complete_enabled) ==
    /\ SDL_joysticks_initialized
    /\ Commit(SDL_UpdateJoysticks(Cur, timestamp, samples, drv_ok, update_complete_enabled))
    /\ UNCHANGED <<balance, opened_as>>

(* A driver hands a sample to a filter (from its Update, under the lock). *)
SendJoystickAxis(hid, timestamp, axis, value) ==
    LET k == FindByHandle(SDL_joysticks, hid)
    IN  /\ k # 0
        /\ SDL_joysticks[k].attached
        /\ Commit(SDL_SendJoystickAxis(Cur, k, timestamp, axis, value))
        /\ UNCHANGED <<balance, opened_as>>

SendJoystickHat(hid, timestamp, hat, value) ==
    LET k == FindByHandle(SDL_joysticks, hid)
    IN  /\ k # 0
        /\ SDL_joysticks[k].attached
        /\ Commit(SDL_SendJoystickHat(Cur, k, timestamp, hat, value))
        /\ UNCHANGED <<balance, opened_as>>

SendJoystickButton(hid, timestamp, button, state) ==
    LET k == FindByHandle(SDL_joysticks, hid)
    IN  /\ k # 0
        /\ SDL_joysticks[k].attached
        /\ Commit(SDL_SendJoystickButton(Cur, k, timestamp, button, state))
        /\ UNCHANGED <<balance, opened_as>>

(* The application calls SDL_RumbleJoystick on a handle it holds; an       *)
(* invalid handle fails the magic check and returns -1.                    *)
RumbleJoystick(hid, low_frequency_rumble, high_frequency_rumble, duration_ms, drv_ok) ==
    LET k == FindByHandle(SDL_joysticks, hid)
    IN  /\ IF ~MagicFails(Cur, hid)
           THEN Commit(SDL_RumbleJoystick(Cur, k, low_frequency_rumble,
                                          high_frequency_rumble, duration_ms, drv_ok))
           ELSE Commit(CHECK_JOYSTICK_MAGIC(SDL_LockJoysticks(Cur), -1))
        /\ UNCHANGED <<balance, opened_as>>

(* SDL_GetTicks advances. *)
Tick(step) ==
    /\ now < MaxNow
    /\ Commit([Cur EXCEPT !.now = now + step])
    /\ UNCHANGED <<balance, opened_as>>

(* The window loses or gains keyboard focus. *)
FocusChanged ==
    /\ Commit([Cur EXCEPT !.unfocused = ~unfocused])
    /\ UNCHANGED <<balance, opened_as>>

(* The hint SDL_HINT_JOYSTICK_ALLOW_BACKGROUND_EVENTS changes. *)
AllowBackgroundEventsChanged(hint) ==
    /\ hint # SDL_joystick_allows_background_events
    /\ Commit(SDL_JoystickAllowBackgroundEventsChanged(Cur, hint))
    /\ UNCHANGED <<balance, opened_as>>

(***************************************************************************)
(* Spec: the registry under open, close, hot-plug, player-index            *)
(* assignment, update, init and quit.                                      *)
(***************************************************************************)
RegInit ==
    /\ SDL_joysticks_initialized = FALSE
    /\ SDL_joysticks_quitting = FALSE
    /\ SDL_joysticks = <<>>
    /\ SDL_joystick_players = <<>>
    /\ SDL_joystick_allows_background_events = FALSE
    /\ devices = NoDevices
    /\ next_id = 1
    /\ next_hid = 1
    /\ unfocused = FALSE
    /\ now = 0
    /\ sensor_refs = 0
    /\ log = <<>>
    /\ ret = 0
    /\ last_op = <<"None", 0, 0, 0>>
    /\ balance = [i \in IDs |-> 0]
    /\ opened_as = [i \in IDs |-> {}]
    /\ samples_hist = <<>>
    /\ axis_evs = <<>>
    /\ focus_kept = TRUE
    /\ repeated = FALSE
    /\ stale = {}
    /\ GuidIdle
    /\ LockIdle

Init == RegInit

Next ==
    \/ /\ \E init_ok \in SUBSET (1..NumDrivers) : InitJoysticks(init_ok, 1)
       /\ UNCHANGED ghostVars
    \/ /\ QuitJoysticks(1, TRUE)
       /\ UNCHANGED ghostVars
    \/ /\ \E gamepad \in BOOLEAN : JoystickAdded(gamepad, FALSE, FALSE, -1)
       /\ UNCHANGED ghostVars
    \/ /\ \E id \in IDs : JoystickRemoved(id, 1)
       /\ UNCHANGED ghostVars
    \/ /\ \E id \in 0..MaxID, outcome \in {"ok", "open_fail", "nomem"} :
             OpenJoystick(id, outcome, 1, <<>>)
       /\ UNCHANGED ghostVars
    \/ /\ \E hid \in 0..MaxHid : CloseJoystick(hid, TRUE)
       /\ UNCHANGED ghostVars
    \/ /\ UpdateJoysticks(1, <<>>, TRUE, TRUE)
       /\ UNCHANGED ghostVars

Spec == Init /\ [][Next]_vars

(***************************************************************************)
(* SpecPlayers: the player-index table under hot-plug and assignment, in   *)
(* an initialized subsystem where the application opens each device once.  *)
(***************************************************************************)
InitPlayers ==
    /\ SDL_joysticks_initialized = TRUE
    /\ SDL_joysticks_quitting = FALSE
    /\ SDL_joysticks = <<>>
    /\ SDL_joystick_players = <<>>
    /\ SDL_joystick_allows_background_events = FALSE
    /\ devices = NoDevices
    /\ next_id = 1
    /\ next_hid = 1
    /\ unfocused = FALSE
    /\ now = 0
    /\ sensor_refs = 0
    /\ log = <<>>
    /\ ret = 0
    /\ last_op = <<"None", 0, 0, 0>>
    /\ balance = [i \in IDs |-> 0]
    /\ opened_as = [i \in IDs |-> {}]
    /\ samples_hist = <<>>
    /\ axis_evs = <<>>
    /\ focus_kept = TRUE
    /\ repeated = FALSE
    /\ stale = {}
    /\ GuidIdle
    /\ LockIdle

NextPlayers ==
    \/ /\ \E gamepad \in BOOLEAN, dpi \in -1..MaxSlot :
             JoystickAdded(gamepad, FALSE, FALSE, dpi)
       /\ UNCHANGED ghostVars
    \/ /\ \E id \in IDs : JoystickRemoved(id, 1)
       /\ UNCHANGED ghostVars
    \/ /\ \E id \in IDs :
             /\ FindByInstance(SDL_joysticks, id) = 0
             /\ OpenJoystick(id, "ok", 1, <<>>)
       /\ UNCHANGED ghostVars
    \/ /\ \E hid \in 1..MaxHid, pi \in -1..MaxSlot : SetJoystickPlayerIndex(hid, pi)
       /\ UNCHANGED ghostVars

SpecPlayers == InitPlayers /\ [][NextPlayers]_vars

(***************************************************************************)
(* SpecInput: one device, opened once, fed button, hat and axis samples    *)
(* under focus changes, and finally removed.                               *)
(***************************************************************************)
OneDevice(virtual, centered, naxes) ==
    [i \in {1} |-> [gamepad |-> FALSE, virtual |-> virtual, centered |-> centered,
                    naxes |-> naxes]]

InitOneDevice(axes) ==
    /\ SDL_joysticks_initialized = TRUE
    /\ SDL_joysticks_quitting = FALSE
    /\ SDL_joysticks = <<>>
    /\ SDL_joystick_players = <<>>
    /\ SDL_joystick_allows_background_events = FALSE
    /\ \E virtual \in BOOLEAN, centered \in BOOLEAN, naxes \in axes :
          devices = OneDevice(virtual, centered, naxes)
    /\ next_id = 2
    /\ next_hid = 1
    /\ unfocused = FALSE
    /\ now = 0
    /\ sensor_refs = 0
    /\ log = <<>>
    /\ ret = 0
    /\ last_op = <<"None", 0, 0, 0>>
    /\ balance = [i \in IDs |-> 0]
    /\ opened_as = [i \in IDs |-> {}]
    /\ samples_hist = <<>>
    /\ axis_evs = <<>>
    /\ focus_kept = TRUE
    /\ repeated = FALSE
    /\ stale = {}
    /\ GuidIdle
    /\ LockIdle

InputAxisValues == {0, 5000}
HatValues == {SDL_HAT_CENTERED, 1}
ButtonStates == {SDL_RELEASED, SDL_PRESSED}

StoredHat(hid, hat) ==
    LET k == FindByHandle(SDL_joysticks, hid)
    IN  IF k # 0 /\ hat < Len(SDL_joysticks[k].hats)
        THEN SDL_joysticks[k].hats[hat + 1]
        ELSE -1

SameCall(op1, op2) == op1[1] = op2[1] /\ op1[2] = op2[2] /\ op1[3] = op2[3]

Called(op) ==
    /\ last_op' = op
    /\ repeated' = SameCall(last_op, op)
    /\ UNCHANGED <<samples_hist, axis_evs, focus_kept, stale>>

NextInput ==
    \/ /\ FindByInstance(SDL_joysticks, 1) = 0
       /\ OpenJoystick(1, "ok", 1, <<>>)
       /\ Called(<<"Open", 1, 0, 0>>)
    \/ \E button \in 0..NumButtons, state \in ButtonStates :
          /\ SendJoystickButton(1, 1, button, state)
          /\ Called(<<"Button", button, state, 0>>)
    \/ \E ts \in Timestamps, hat \in 0..NumHats, value \in HatValues :
          /\ SendJoystickHat(1, ts, hat, value)
          /\ Called(<<"Hat", hat, value, StoredHat(1, hat)>>)
    \/ \E value \in InputAxisValues :
          /\ SendJoystickAxis(1, 1, 0, value)
          /\ Called(<<"Axis", 0, value, 0>>)
    \/ /\ FocusChanged
       /\ Called(<<"Focus", 0, 0, 0>>)
    \/ /\ JoystickRemoved(1, 1)
       /\ Called(<<"Removed", 1, 0, 0>>)

InitInput == InitOneDevice({NumAxes})

SpecInput == InitInput /\ [][NextInput]_vars

(***************************************************************************)
(* SpecAxis: one device, opened once, whose axis 0 is fed a bounded run of *)
(* samples under focus changes; the ghosts keep the samples and the        *)
(* delivered values.                                                       *)
(***************************************************************************)
AxisSamples == {-32767, 90, 100, 5000, 32767}

DeliveredAxisValues(l, axis) ==
    LET idx == {i \in 1..Len(l) : l[i][1] = "ev_axis" /\ l[i][3] = axis}
        F[i \in 0..Len(l)] ==
            IF i = 0 THEN <<>>
            ELSE IF i \in idx THEN Append(F[i - 1], l[i][4]) ELSE F[i - 1]
    IN  F[Len(l)]

NextAxis ==
    \/ /\ FindByInstance(SDL_joysticks, 1) = 0
       /\ OpenJoystick(1, "ok", 1, <<>>)
       /\ UNCHANGED ghostVars
    \/ \E value \in AxisSamples :
          /\ Len(samples_hist) < MaxSamples
          /\ SendJoystickAxis(1, 1, 0, value)
          /\ samples_hist' = Append(samples_hist, value)
          /\ axis_evs' = axis_evs \o DeliveredAxisValues(log', 0)
          /\ focus_kept' = (focus_kept /\ ~SDL_PrivateJoystickShouldIgnoreEvent(Cur))
          /\ UNCHANGED <<last_op, repeated, stale>>
    \/ \E value \in AxisSamples :
          /\ SendJoystickAxis(1, 1, NumAxes, value)
          /\ UNCHANGED ghostVars
    \/ /\ FocusChanged
       /\ UNCHANGED ghostVars

InitAxis == InitOneDevice(1..NumAxes)

SpecAxis == InitAxis /\ [][NextAxis]_vars

(***************************************************************************)
(* SpecRumble: one device, opened once, rumbled by the application while   *)
(* the clock advances and SDL_UpdateJoysticks expires and resends.         *)
(***************************************************************************)
RumbleMagnitudes == {0, 65535}
RumbleDurations == {0, 1000, 70000}
TickSteps == {1000, 2000}

AlreadyRumbling(hid, lo, hi) ==
    LET k == FindByHandle(SDL_joysticks, hid)
    IN  /\ k # 0
        /\ SDL_joysticks[k].low_frequency_rumble = lo
        /\ SDL_joysticks[k].high_frequency_rumble = hi

NextRumble ==
    \/ /\ FindByInstance(SDL_joysticks, 1) = 0
       /\ OpenJoystick(1, "ok", 1, <<>>)
       /\ Called(<<"Open", 1, 0, 0>>)
    \/ \E lo \in RumbleMagnitudes, hi \in RumbleMagnitudes,
          duration_ms \in RumbleDurations, drv_ok \in BOOLEAN :
          /\ RumbleJoystick(1, lo, hi, duration_ms, drv_ok)
          /\ Called(<<"Rumble", lo, hi, <<duration_ms, AlreadyRumbling(1, lo, hi)>>>>)
    \/ \E step \in TickSteps :
          /\ Tick(step)
          /\ Called(<<"Tick", step, 0, 0>>)
    \/ \E drv_ok \in BOOLEAN :
          /\ UpdateJoysticks(1, <<>>, drv_ok, TRUE)
          /\ Called(<<"Update", 0, 0, 0>>)

SpecRumble == InitInput /\ [][NextRumble]_vars

(***************************************************************************)
(* SpecGuid: a caller builds a GUID from its arguments and decodes it.     *)
(***************************************************************************)
GuidBuses == {3, 32, 255, 768}
GuidIds == {0, 1118, 654}
GuidVersions == {0, 276}
GuidNames == {<<>>, <<80, 97>>, <<88, 105, 110, 112, 117, 116, 32, 67, 111, 110, 116, 114, 111, 108>>}
GuidSignatures == {0, 104}
GuidData == {0, 1}

GuidArgs ==
    [bus : GuidBuses, vendor : GuidIds, product : GuidIds, version : GuidVersions,
     name : GuidNames, driver_signature : GuidSignatures, driver_data : GuidData,
     big : BOOLEAN]

InitGuid ==
    /\ SDL_joysticks_initialized = FALSE
    /\ SDL_joysticks_quitting = FALSE
    /\ SDL_joysticks = <<>>
    /\ SDL_joystick_players = <<>>
    /\ SDL_joystick_allows_background_events = FALSE
    /\ devices = NoDevices
    /\ next_id = 1
    /\ next_hid = 1
    /\ unfocused = FALSE
    /\ now = 0
    /\ sensor_refs = 0
    /\ log = <<>>
    /\ ret = 0
    /\ last_op = <<"None", 0, 0, 0>>
    /\ balance = [i \in IDs |-> 0]
    /\ opened_as = [i \in IDs |-> {}]
    /\ samples_hist = <<>>
    /\ axis_evs = <<>>
    /\ focus_kept = TRUE
    /\ repeated = FALSE
    /\ stale = {}
    /\ guid_pc = "args"
    /\ guid_args \in GuidArgs
    /\ guid = ZeroGuid
    /\ guid_info = NoGuidInfo
    /\ LockIdle

CreateJoystickGUID ==
    /\ guid_pc = "args"
    /\ guid' = SDL_CreateJoystickGUID(guid_args.bus, guid_args.vendor, guid_args.product,
                                      guid_args.version, guid_args.name,
                                      guid_args.driver_signature, guid_args.driver_data,
                                      guid_args.big)
    /\ guid_pc' = "created"
    /\ UNCHANGED <<guid_args, guid_info>>

GetJoystickGUIDInfo ==
    /\ guid_pc = "created"
    /\ guid_info' = SDL_GetJoystickGUIDInfo(guid, guid_args.big)
    /\ guid_pc' = "decoded"
    /\ UNCHANGED <<guid_args, guid>>

NextGuid ==
    \/ CreateJoystickGUID /\ UNCHANGED <<regVars, ghostVars, lockVars>>
    \/ GetJoystickGUIDInfo /\ UNCHANGED <<regVars, ghostVars, lockVars>>

SpecGuid == InitGuid /\ [][NextGuid]_vars

(***************************************************************************)
(* SpecLock: threads calling SDL_InitJoysticks, SDL_QuitJoysticks and      *)
(* other public operations, interleaved statement by statement.            *)
(***************************************************************************)
InitLock ==
    /\ SDL_joysticks_initialized = FALSE
    /\ SDL_joysticks_quitting = FALSE
    /\ SDL_joysticks = <<>>
    /\ SDL_joystick_players = <<>>
    /\ SDL_joystick_allows_background_events = FALSE
    /\ devices = NoDevices
    /\ next_id = 1
    /\ next_hid = 1
    /\ unfocused = FALSE
    /\ now = 0
    /\ sensor_refs = 0
    /\ log = <<>>
    /\ ret = 0
    /\ last_op = <<"None", 0, 0, 0>>
    /\ balance = [i \in IDs |-> 0]
    /\ opened_as = [i \in IDs |-> {}]
    /\ samples_hist = <<>>
    /\ axis_evs = <<>>
    /\ focus_kept = TRUE
    /\ repeated = FALSE
    /\ stale = {}
    /\ GuidIdle
    /\ LockIdle

LockOps == {"init", "quit", "query"}

LockFrame ==
    UNCHANGED <<SDL_joysticks_quitting, SDL_joysticks, SDL_joystick_players,
                SDL_joystick_allows_background_events, devices, next_id, next_hid,
                unfocused, now, sensor_refs, log, ret, balance, opened_as, ghostVars, guidVars>>

NextLock ==
    \E t \in Threads :
       \/ \E op \in LockOps : StartOp(t, op) /\ LockFrame
       \/ InitCreateLock(t) /\ LockFrame
       \/ LockIncPending(t) /\ LockFrame
       \/ LockReadMutex(t) /\ LockFrame
       \/ LockAcquire(t) /\ LockFrame
       \/ LockAcquireDestroyed(t) /\ LockFrame
       \/ LockDecPending(t) /\ LockFrame
       \/ LockCount(t) /\ LockFrame
       \/ BodyInit(t) /\ LockFrame
       \/ BodyQuit(t) /\ LockFrame
       \/ BodyNest(t) /\ LockFrame
       \/ BodyUnlock(t) /\ LockFrame
       \/ UnlockCount(t) /\ LockFrame
       \/ UnlockCheckLast(t) /\ LockFrame
       \/ UnlockTeardownRead(t) /\ LockFrame
       \/ UnlockTeardownRelease(t) /\ LockFrame
       \/ UnlockTeardownReleaseLocal(t) /\ LockFrame
       \/ UnlockDestroy(t) /\ LockFrame
       \/ UnlockPlain(t) /\ LockFrame

SpecLock == InitLock /\ [][NextLock]_vars

(***************************************************************************)
(* Claims checked under Spec.                                              *)
(***************************************************************************)
HandlesOf(instance_id) ==
    {k \in 1..Len(SDL_joysticks) : SDL_joysticks[k].instance_id = instance_id}

(* C1: for a present device, while successful opens exceed closes exactly  *)
(* one handle with that instance id is in the registry list, every open    *)
(* since the count left zero returned that handle, and its ref_count is    *)
(* the number of successful opens minus the number of closes.              *)
C1_OneHandleRefCount ==
    \A id \in DOMAIN devices :
        balance[id] > 0 =>
            /\ Cardinality(HandlesOf(id)) = 1
            /\ \A k \in HandlesOf(id) :
                  /\ SDL_joysticks[k].ref_count = balance[id]
                  /\ opened_as[id] = {SDL_joysticks[k].hid}

(* A device opened twice on a handle that is not the first allocation. *)
C1_Witness ==
    \E id \in DOMAIN devices :
        /\ balance[id] = 2
        /\ \E k \in HandlesOf(id) : SDL_joysticks[k].hid > 1

(* C2: no two handles in the registry list carry the same instance id. *)
C2_NoTwoHandlesShareID ==
    \A i, j \in 1..Len(SDL_joysticks) :
        i # j => SDL_joysticks[i].instance_id # SDL_joysticks[j].instance_id

(* Two handles are open, the older one opened more than once. *)
C2_Witness ==
    /\ Len(SDL_joysticks) = 2
    /\ SDL_joysticks[2].ref_count = 2

(***************************************************************************)
(* Claims checked under SpecPlayers.                                       *)
(***************************************************************************)
(* C3: every non-zero instance id occupies at most one slot of the *)
(* player-index table.                                              *)
C3_SlotUnique ==
    \A i, j \in 1..Len(SDL_joystick_players) :
        (i # j /\ SDL_joystick_players[i] # 0) =>
            SDL_joystick_players[i] # SDL_joystick_players[j]

(* The last call assigned a slot held by another id and relocated it. *)
C3_Witness ==
    /\ Cardinality({i \in 1..Len(SDL_joystick_players) : SDL_joystick_players[i] # 0}) = 2
    /\ Cardinality({i \in 1..Len(log) : log[i][1] = "drv_SetDevicePlayerIndex"}) = 2


(***************************************************************************)
(* Claims checked under SpecInput and SpecAxis.                            *)
(***************************************************************************)
CountBefore(l, p, e) == Cardinality({i \in 1..(p - 1) : l[i] = e})

RemovedAt(l, id) == {p \in 1..Len(l) : l[p] = <<"ev_removed", id, 0, 0>>}

(* C6: when an open, attached device is removed, a release event for every *)
(* pressed button, a centered event for every non-centered hat and an      *)
(* event carrying the zero value for every axis that has an initial value  *)
(* and is away from zero are delivered, all of them before the "removed"   *)
(* notification.                                                           *)
C6_RecenterBeforeRemoved ==
    [][\A id \in IDs :
         LET k == FindByInstance(SDL_joysticks, id)
         IN  (k # 0 /\ SDL_joysticks[k].attached /\ RemovedAt(log', id) # {}) =>
               LET joystick == SDL_joysticks[k]
               IN  \A p \in RemovedAt(log', id) :
                     /\ \A b \in 1..Len(joystick.buttons) :
                          joystick.buttons[b] = SDL_PRESSED =>
                            CountBefore(log', p, <<"ev_button_up", id, b - 1, SDL_RELEASED>>) = 1
                     /\ \A h \in 1..Len(joystick.hats) :
                          joystick.hats[h] # SDL_HAT_CENTERED =>
                            CountBefore(log', p, <<"ev_hat", id, h - 1, SDL_HAT_CENTERED>>) = 1
                     /\ \A a \in 1..Len(joystick.axes) :
                          (joystick.axes[a].has_initial_value
                             /\ joystick.axes[a].value # joystick.axes[a].zero) =>
                            CountBefore(log', p, <<"ev_axis", id, a - 1, joystick.axes[a].zero>>) = 1
                     /\ ~SDL_joysticks'[FindByInstance(SDL_joysticks', id)].attached]_vars

C6_Witness ==
    /\ last_op[1] = "Removed"
    /\ unfocused
    /\ \E p \in RemovedAt(log, 1) :
          /\ CountBefore(log, p, <<"ev_button_up", 1, 0, SDL_RELEASED>>) = 1
          /\ CountBefore(log, p, <<"ev_button_up", 1, 1, SDL_RELEASED>>) = 1
          /\ CountBefore(log, p, <<"ev_hat", 1, 0, SDL_HAT_CENTERED>>) = 1
          /\ \E i \in 1..(p - 1) : log[i][1] = "ev_axis"

(* The first delivery the samples h[i..] lead to when b is the stored      *)
(* initial value: <<synthesized value, delivered sample>>, or <<>>.        *)
RECURSIVE FirstDelivery(_, _, _, _)
FirstDelivery(h, i, b, second) ==
    IF i > Len(h) THEN <<>>
    ELSE IF ~second /\ (b <= -32767 \/ b = 32767) /\ SDL_abs(h[i]) < SDL_JOYSTICK_AXIS_MAX \div 4
         THEN FirstDelivery(h, i + 1, h[i], second)
    ELSE IF h[i] = b THEN FirstDelivery(h, i + 1, b, second)
    ELSE IF SDL_abs(h[i] - b) > 409 THEN <<b, h[i]>>
    ELSE FirstDelivery(h, i + 1, b, TRUE)

(* The same with the first sample as the stored value throughout. *)
RECURSIVE FirstDeliveryFixed(_, _)
FirstDeliveryFixed(h, i) ==
    IF i > Len(h) THEN <<>>
    ELSE IF SDL_abs(h[i] - h[1]) > 409 THEN <<h[1], h[i]>>
    ELSE FirstDeliveryFixed(h, i + 1)

StartsWith(evs, expected) ==
    IF expected = <<>> THEN evs = <<>>
    ELSE Len(evs) >= 2 /\ SubSeq(evs, 1, 2) = expected

PlainAxisFocused ==
    /\ FindByInstance(SDL_joysticks, 1) # 0
    /\ ~devices[1].virtual
    /\ ~SDL_JoystickAxesCenteredAtZero(devices[1].naxes, devices[1].centered)
    /\ focus_kept
    /\ samples_hist # <<>>

(* C7 as stated: for a non-virtual axis without initial value, focused,    *)
(* the samples up to the first one more than 409 away from the first       *)
(* sample deliver nothing, and that one is delivered right after one       *)
(* synthesized event carrying the first sample's value.                    *)
C7_FirstSampleIsInitial ==
    PlainAxisFocused => StartsWith(axis_evs, FirstDeliveryFixed(samples_hist, 2))

(* C7 (amended): for a non-virtual axis without initial value, focused,    *)
(* the stored initial value is the first sample, replaced by a later       *)
(* sample of magnitude below SDL_JOYSTICK_AXIS_MAX / 4 as long as the      *)
(* stored one is 32767 or <= -32767 and no differing sample was seen;      *)
(* samples within 409 of the stored value deliver nothing; the first       *)
(* sample more than 409 away is delivered right after exactly one          *)
(* synthesized event carrying the stored initial value.                    *)
C7_InitialValueThenJitter ==
    PlainAxisFocused => StartsWith(axis_evs, FirstDelivery(samples_hist, 2, samples_hist[1], FALSE))

C7_Witness ==
    /\ PlainAxisFocused
    /\ samples_hist = <<100, 90, 5000>>
    /\ axis_evs = <<100, 5000>>

HatCall(op) == op[1] = "Hat"

(* The step is the second of two calls of SDL_SendJoystickHat in           *)
(* succession with the same value for the same hat.                        *)
SecondHatCall == HatCall(last_op') /\ repeated' /\ ~repeated

(* C8 as stated: two calls of SDL_SendJoystickHat in succession with the   *)
(* same value for the same hat, the value differing from the stored one,   *)
(* produce exactly one notification, and the second call changes no state  *)
(* and posts no event.                                                     *)
C8_ExactlyOneHatEvent ==
    [][(SecondHatCall /\ last_op[2] < NumHats /\ last_op[4] # last_op[3]) =>
          /\ Len(log) + Len(log') = 1
          /\ SDL_joysticks' = SDL_joysticks]_vars

(* C8 (amended): two calls of SDL_SendJoystickHat in succession with the   *)
(* same value for the same hat produce at most one notification; exactly   *)
(* one when the hat exists, the value differs from the stored one and the  *)
(* event is not ignored for lack of focus (the value is centered or events *)
(* are not being ignored); the second call changes no handle state and     *)
(* posts no event.                                                         *)
C8_SecondHatCallIsNoOp ==
    [][SecondHatCall =>
          /\ log' = <<>>
          /\ SDL_joysticks' = SDL_joysticks
          /\ Len(log) <= 1
          /\ (Len(log) = 1) <=>
                (/\ last_op[2] < NumHats
                 /\ last_op[4] # last_op[3]
                 /\ (last_op[3] = SDL_HAT_CENTERED
                       \/ ~SDL_PrivateJoystickShouldIgnoreEvent(Cur)))]_vars

C8_Witness ==
    /\ HatCall(last_op)
    /\ repeated
    /\ last_op[3] # SDL_HAT_CENTERED
    /\ log = <<>>
    /\ ~unfocused
    /\ \E k \in 1..Len(SDL_joysticks) :
          /\ SDL_joysticks[k].hats[1] = last_op[3]
          /\ SDL_joysticks[k].update_complete # 0

(***************************************************************************)
(* Claims checked under SpecRumble.                                        *)
(***************************************************************************)
DriverRumbles(l) == Cardinality({i \in 1..Len(l) : l[i][1] = "drv_Rumble"})

(* The step is the second of two calls of SDL_RumbleJoystick in succession *)
(* on an open handle with identical magnitudes, not both zero.             *)
SecondRumbleCall ==
    /\ last_op'[1] = "Rumble" /\ repeated' /\ ~repeated
    /\ (last_op[2] # 0 \/ last_op[3] # 0)
    /\ SDL_joysticks # <<>>

(* C9 as stated: two calls of SDL_RumbleJoystick with identical non-zero   *)
(* magnitudes (the first changing the magnitudes in effect) issue exactly  *)
(* one driver Rumble command and leave exactly one scheduled expiration;   *)
(* the second call makes no driver call and returns success.               *)
C9_OneRumbleCommand ==
    [][(SecondRumbleCall /\ ~last_op[4][2]) =>
          /\ DriverRumbles(log) + DriverRumbles(log') = 1
          /\ DriverRumbles(log') = 0
          /\ ret' = 0
          /\ SDL_joysticks'[1].rumble_expiration # 0]_vars

(* C9 (amended): of two calls of SDL_RumbleJoystick with identical         *)
(* non-zero magnitudes, when the first succeeds the pair issues at most    *)
(* one driver Rumble command (exactly one, by the first call, if the       *)
(* magnitudes were not already in effect), the second call makes no driver *)
(* call, returns success and leaves one scheduled expiration, now + min(   *)
(* duration, SDL_MAX_RUMBLE_DURATION_MS), if its duration is non-zero and  *)
(* none if it is zero; when the first call's driver command fails the      *)
(* magnitudes are not recorded and the second call issues the command      *)
(* again, returning the driver's answer.                                   *)
C9_SecondRumbleRefreshes ==
    [][SecondRumbleCall =>
          IF ret = 0
          THEN /\ DriverRumbles(log) = (IF last_op[4][2] THEN 0 ELSE 1)
               /\ DriverRumbles(log') = 0
               /\ ret' = 0
               /\ SDL_joysticks'[1].low_frequency_rumble = last_op[2]
               /\ SDL_joysticks'[1].high_frequency_rumble = last_op[3]
               /\ SDL_joysticks'[1].rumble_expiration =
                     (IF last_op'[4][1] # 0
                      THEN now + SDL_min(last_op'[4][1], SDL_MAX_RUMBLE_DURATION_MS)
                      ELSE 0)
          ELSE /\ DriverRumbles(log) = 1
               /\ DriverRumbles(log') = 1
               /\ (ret' = 0) <=> (SDL_joysticks'[1].low_frequency_rumble = last_op[2]
                                    /\ SDL_joysticks'[1].high_frequency_rumble = last_op[3])]_vars

C9_Witness ==
    /\ last_op[1] = "Rumble"
    /\ repeated
    /\ last_op[2] # 0 /\ last_op[3] # 0
    /\ last_op[4][1] # 0
    /\ log = <<>>
    /\ ret = 0
    /\ SDL_joysticks # <<>>
    /\ SDL_joysticks[1].rumble_expiration = now + 1000
    /\ now > 0

(***************************************************************************)
(* Claims checked under SpecGuid.                                          *)
(***************************************************************************)
GuidRoundTrips ==
    guid_info = [vendor |-> guid_args.vendor,
                 product |-> guid_args.product,
                 version |-> guid_args.version,
                 crc16 |-> SDL_crc16(0, guid_args.name)]

(* C10 as stated: for every bus, version, name, driver signature and       *)
(* driver data and every vendor/product pair other than (0,0),             *)
(* SDL_GetJoystickGUIDInfo of SDL_CreateJoystickGUID returns the original  *)
(* vendor, product and version and the CRC16 of the name.                  *)
C10_RoundTripUnlessBothZero ==
    (guid_pc = "decoded" /\ ~(guid_args.vendor = 0 /\ guid_args.product = 0))
        => GuidRoundTrips

(* C10 (amended): for every version, name, driver signature and driver     *)
(* data, every bus below 0x20 or equal to SDL_HARDWARE_BUS_VIRTUAL, and    *)
(* every vendor/product pair with both ids non-zero,                       *)
(* SDL_GetJoystickGUIDInfo of SDL_CreateJoystickGUID returns the original  *)
(* vendor, product and version and the CRC16 of the name, on hosts of      *)
(* either byte order.                                                      *)
C10_RoundTripKnownBusBothIds ==
    (/\ guid_pc = "decoded"
     /\ guid_args.vendor # 0 /\ guid_args.product # 0
     /\ (guid_args.bus < 32 \/ guid_args.bus = SDL_HARDWARE_BUS_VIRTUAL))
        => GuidRoundTrips

C10_Witness ==
    /\ guid_pc = "decoded"
    /\ guid_args.big
    /\ guid_args.bus = 3
    /\ guid_args.vendor = 1118 /\ guid_args.product = 654 /\ guid_args.version = 276
    /\ guid_args.name # <<>>
    /\ guid_info.vendor = 1118 /\ guid_info.product = 654 /\ guid_info.version = 276
    /\ guid_info.crc16 # 0
    /\ guid[5] = 94 /\ guid[6] = 4

(***************************************************************************)
(* Claims checked under SpecLock.                                          *)
(***************************************************************************)
WaitingFor(t, m) == threads[t].pc \in {"L2w", "U3w"} /\ threads[t].target = m

(* C4: when the last SDL_UnlockJoysticks after shutdown runs while another *)
(* thread calls SDL_LockJoysticks, the mutex is destroyed only when no     *)
(* thread holds it and none is waiting for it: a destroyed mutex has no    *)
(* owner and no thread blocked on it.                                      *)
C4_DestroyedMutexUnused ==
    \A m \in 1..Len(mutexes) :
       mutexes[m].destroyed =>
          /\ mutexes[m].owner = 0
          /\ \A t \in Threads : ~WaitingFor(t, m)

Inside(t) == threads[t].depth > 0

(* C5: while the subsystem is initialized at most one thread is between    *)
(* SDL_LockJoysticks and its matching SDL_UnlockJoysticks, and             *)
(* SDL_joysticks_locked equals that thread's nesting depth, 0 exactly when *)
(* no thread holds the lock.                                               *)
C5_OneHolderDepthCounted ==
    SDL_joysticks_initialized =>
       /\ Cardinality({t \in Threads : Inside(t)}) <= 1
       /\ \A t \in Threads : Inside(t) => SDL_joysticks_locked = threads[t].depth
       /\ (SDL_joysticks_locked = 0) <=> (\A t \in Threads : ~Inside(t))

NameFormArgs == guid_args.vendor = 0 /\ guid_args.product = 0

(* What the name form keeps of the name, and where. *)
NameStored ==
    LET room == IF guid_args.driver_signature # 0 THEN 9 ELSE 11
        n == SDL_min(Len(guid_args.name), room)
    IN  /\ \A i \in 1..n : guid[4 + i] = guid_args.name[i]
        /\ guid[4 + n + 1] = 0
        /\ guid_args.driver_signature # 0 =>
              (guid[15] = guid_args.driver_signature /\ guid[16] = guid_args.driver_data)

(* C11 as stated: for vendor/product = (0,0) SDL_CreateJoystickGUID stores *)
(* the name's leading bytes (at most 11 without a driver signature, at     *)
(* most 9 with one) NUL-terminated from byte 4 on, leaves signature and    *)
(* data in bytes 14 and 15, and the decoded CRC is the CRC16 of the full   *)
(* name.                                                                   *)
C11_NameFormCrcAnyBus ==
    (guid_pc = "decoded" /\ NameFormArgs) =>
        (NameStored /\ guid_info.crc16 = SDL_crc16(0, guid_args.name))

(* C11 (amended): for vendor/product = (0,0) SDL_CreateJoystickGUID stores *)
(* the name's leading bytes (at most 11 without a driver signature, at     *)
(* most 9 with one) NUL-terminated from byte 4 on and leaves signature and *)
(* data in bytes 14 and 15; for a bus below 0x20 or equal to               *)
(* SDL_HARDWARE_BUS_VIRTUAL the decoded CRC is the CRC16 of the full name, *)
(* for any other bus the decoded CRC is 0.                                 *)
C11_NameFormCrcKnownBus ==
    (guid_pc = "decoded" /\ NameFormArgs) =>
        /\ NameStored
        /\ guid_info.crc16 =
              (IF guid_args.bus < 32 \/ guid_args.bus = SDL_HARDWARE_BUS_VIRTUAL
               THEN SDL_crc16(0, guid_args.name) ELSE 0)

C11_Witness ==
    /\ guid_pc = "decoded"
    /\ NameFormArgs
    /\ guid_args.bus = 3
    /\ guid_args.driver_signature = 104 /\ guid_args.driver_data = 1
    /\ Len(guid_args.name) > 11
    /\ guid[13] = guid_args.name[9] /\ guid[14] = 0
    /\ guid[15] = 104 /\ guid[16] = 1
    /\ guid_info.crc16 = SDL_crc16(0, guid_args.name)
    /\ guid_info.crc16 # 0

(***************************************************************************)
(* SpecLife: the life of handles.  Devices come and go, the application    *)
(* opens, closes, rumbles and queries handles, valid or not, and the       *)
(* subsystem is initialized and quit.  SDL_calloc never hands out an       *)
(* address twice here, so hid names one SDL_Joystick object for ever.      *)
(***************************************************************************)
SDL_GetJoystickFromInstanceID(st, instance_id) ==
    LET k == FindByInstance(st.joysticks, instance_id)
    IN  IF k # 0 THEN st.joysticks[k].hid ELSE NULL

SDL_GetJoystickFromPlayerIndex(st, player_index) ==
    SDL_GetJoystickFromInstanceID(st, SDL_GetJoystickIDForPlayerIndex(st.players, player_index))

Handles(js) == {js[k].hid : k \in 1..Len(js)}

HandleOf(js, hid) == js[FindByHandle(js, hid)]

(* The call is recorded, and the handles whose final close ran in it. *)
CalledLife(op) ==
    /\ last_op' = op
    /\ repeated' = SameCall(last_op, op)
    /\ stale' = stale \cup (Handles(SDL_joysticks) \ Handles(SDL_joysticks'))
    /\ UNCHANGED <<samples_hist, axis_evs, focus_kept>>

JoystickConnected(hid) ==
    /\ Commit(SDL_JoystickConnected(Cur, hid))
    /\ UNCHANGED <<balance, opened_as>>

MaxLifeID == 1      \* devices that appear over the life of SpecLife
LifeIDs == 1..MaxLifeID
LifeRumble == 65535
LifeDuration == 1000

NextLife ==
    \/ \E init_ok \in SUBSET (1..NumDrivers) :
          /\ InitJoysticks(init_ok, 1)
          /\ CalledLife(<<"Init", init_ok, 0, 0>>)
    \/ /\ QuitJoysticks(1, TRUE)
       /\ CalledLife(<<"Quit", 0, 0, 0>>)
    \/ /\ next_id <= MaxLifeID
       /\ JoystickAdded(TRUE, FALSE, FALSE, -1)
       /\ CalledLife(<<"Added", next_id, 0, 0>>)
    \/ \E id \in LifeIDs :
          /\ JoystickRemoved(id, 1)
          /\ CalledLife(<<"Removed", id, 0, 0>>)
    \/ \E id \in 0..MaxLifeID, outcome \in {"ok", "open_fail", "nomem"} :
          /\ OpenJoystick(id, outcome, 1, <<>>)
          /\ CalledLife(<<"Open", id, outcome, 0>>)
    \/ \E hid \in 0..MaxHid :
          /\ CloseJoystick(hid, TRUE)
          /\ CalledLife(<<"Close", hid, 0, 0>>)
    \/ \E hid \in 0..MaxHid :
          /\ RumbleJoystick(hid, LifeRumble, 0, LifeDuration, TRUE)
          /\ CalledLife(<<"Rumble", hid, 0, 0>>)
    \/ \E hid \in 0..MaxHid :
          /\ JoystickConnected(hid)
          /\ CalledLife(<<"Connected", hid, 0, 0>>)

SpecLife == RegInit /\ [][NextLife]_vars

(***************************************************************************)
(* SpecStale: SpecLife with an allocator that may hand out a freed         *)
(* SDL_Joystick block again.  SDL_CloseJoystick ends with SDL_free, so a   *)
(* handle kept past its final close is a dangling pointer; what            *)
(* CHECK_JOYSTICK_MAGIC reads through it is whatever the block holds       *)
(* then: the cleared marker, or, once SDL_calloc has reused the block for  *)
(* a new SDL_Joystick, that object's valid marker.                         *)
(***************************************************************************)
OpenJoystickReusing(instance_id, addr, timestamp, samples) ==
    /\ addr \in stale \ Handles(SDL_joysticks)
    /\ FindByInstance(SDL_joysticks, instance_id) = 0
    /\ LET st1 == SDL_OpenJoystick([Cur EXCEPT !.next_hid = addr],
                                   instance_id, "ok", timestamp, samples)
       IN  /\ Commit([st1 EXCEPT !.next_hid = next_hid])
           /\ IF st1.ret # NULL
              THEN /\ balance' = [balance EXCEPT ![instance_id] = @ + 1]
                   /\ opened_as' = [opened_as EXCEPT ![instance_id] = @ \cup {st1.ret}]
              ELSE UNCHANGED <<balance, opened_as>>

GetJoystickPlayerIndex(hid) ==
    /\ Commit(SDL_GetJoystickPlayerIndex(Cur, hid))
    /\ UNCHANGED <<balance, opened_as>>

GetJoystickInstanceID(hid) ==
    /\ Commit(SDL_GetJoystickInstanceID(Cur, hid))
    /\ UNCHANGED <<balance, opened_as>>

GetJoystickAxis(hid, axis, oob) ==
    /\ Commit(SDL_GetJoystickAxis(Cur, hid, axis, oob))
    /\ UNCHANGED <<balance, opened_as>>

SetJoystickLED(hid, colour, drv_ok) ==
    /\ Commit(SDL_SetJoystickLED(Cur, hid, colour, drv_ok))
    /\ UNCHANGED <<balance, opened_as>>

StaleColour == <<255, 0, 0>>

NextStale ==
    \/ \E init_ok \in SUBSET (1..NumDrivers) :
          /\ InitJoysticks(init_ok, 1)
          /\ CalledLife(<<"Init", init_ok, 0, 0>>)
    \/ /\ QuitJoysticks(1, TRUE)
       /\ CalledLife(<<"Quit", 0, 0, 0>>)
    \/ /\ next_id <= MaxLifeID
       /\ JoystickAdded(TRUE, FALSE, FALSE, -1)
       /\ CalledLife(<<"Added", next_id, 0, 0>>)
    \/ \E id \in LifeIDs :
          /\ JoystickRemoved(id, 1)
          /\ CalledLife(<<"Removed", id, 0, 0>>)
    \/ \E id \in 0..MaxLifeID :
          /\ OpenJoystick(id, "ok", 1, <<>>)
          /\ CalledLife(<<"Open", id, "ok", 0>>)
    \/ \E id \in LifeIDs, addr \in 1..MaxHid :
          /\ OpenJoystickReusing(id, addr, 1, <<>>)
          /\ CalledLife(<<"Open", id, "ok", addr>>)
    \/ \E hid \in 0..MaxHid :
          /\ CloseJoystick(hid, TRUE)
          /\ CalledLife(<<"Close", hid, 0, 0>>)
    \/ \E hid \in 0..MaxHid :
          /\ RumbleJoystick(hid, LifeRumble, 0, LifeDuration, TRUE)
          /\ CalledLife(<<"Rumble", hid, 0, 0>>)
    \/ \E hid \in 0..MaxHid :
          /\ JoystickConnected(hid)
          /\ CalledLife(<<"Connected", hid, 0, 0>>)
    \/ \E hid \in 0..MaxHid, player_index \in 0..MaxSlot :
          /\ SetJoystickPlayerIndex(hid, player_index)
          /\ CalledLife(<<"SetPlayerIndex", hid, player_index, 0>>)
    \/ \E hid \in 0..MaxHid :
          /\ GetJoystickPlayerIndex(hid)
          /\ CalledLife(<<"GetPlayerIndex", hid, 0, 0>>)
    \/ \E hid \in 0..MaxHid :
          /\ GetJoystickInstanceID(hid)
          /\ CalledLife(<<"GetInstanceID", hid, 0, 0>>)
    \/ \E hid \in 0..MaxHid :
          /\ GetJoystickAxis(hid, 0, 0)
          /\ CalledLife(<<"GetAxis", hid, 0, 0>>)
    \/ \E hid \in 0..MaxHid :
          /\ SetJoystickLED(hid, StaleColour, TRUE)
          /\ CalledLife(<<"SetLED", hid, 0, 0>>)

SpecStale == RegInit /\ [][NextStale]_vars

DriverCalls(l) ==
    {i \in 1..Len(l) : l[i][1] \in {"drv_Open", "drv_Close", "drv_Update", "drv_Rumble",
                                    "drv_RumbleTriggers", "drv_SetDevicePlayerIndex",
                                    "drv_SetLED", "drv_Detect", "drv_Init", "drv_Quit"}}

(* The error value of each operation that takes a handle. *)
ErrorValue(op) ==
    CASE op = "Close" -> 0
      [] op = "Rumble" -> -1
      [] op = "Connected" -> FALSE
      [] op = "SetPlayerIndex" -> -1
      [] op = "GetPlayerIndex" -> -1
      [] op = "GetInstanceID" -> 0
      [] op = "GetAxis" -> 0
      [] op = "SetLED" -> -1

HandleOps == {"Close", "Rumble", "Connected", "SetPlayerIndex", "GetPlayerIndex",
              "GetInstanceID", "GetAxis", "SetLED"}

NoSideEffect ==
    /\ SDL_joysticks' = SDL_joysticks
    /\ SDL_joystick_players' = SDL_joystick_players
    /\ SDL_joysticks_locked' = SDL_joysticks_locked
    /\ DriverCalls(log') = {}

(* C12: every public operation that takes a handle, given a null handle or *)
(* a handle invalidated by its final close, returns its error value and    *)
(* changes nothing: registry list, player-index table, every handle's      *)
(* state and the lock depth stay as they were and no driver function is    *)
(* called.                                                                 *)
C12_InvalidHandleNoEffect ==
    [][(last_op'[1] \in HandleOps /\ (last_op'[2] = NULL \/ last_op'[2] \in stale))
          => (NoSideEffect /\ ret' = ErrorValue(last_op'[1]))]_vars

CountKind(l, kind) == Cardinality({i \in 1..Len(l) : l[i][1] = kind})

FinalClose ==
    /\ last_op'[1] = "Close"
    /\ last_op'[2] \in Handles(SDL_joysticks)
    /\ HandleOf(SDL_joysticks, last_op'[2]).ref_count = 1

ReopenAfterClose ==
    /\ last_op'[1] = "Open" /\ last_op'[3] = "ok"
    /\ last_op'[2] \in DOMAIN devices
    /\ FindByInstance(SDL_joysticks, last_op'[2]) = 0
    /\ stale # {}

(* C13: when SDL_CloseJoystick brings ref_count to zero, driver Close is   *)
(* called exactly once and the handle fails the identity check and has     *)
(* left the registry list; no lookup by instance id or player index        *)
(* returns a handle that was closed for good; and an open of a             *)
(* still-present id that has no handle creates a fresh handle with         *)
(* ref_count 1.                                                            *)
C13_FinalCloseUnlinks ==
    [][/\ FinalClose =>
            /\ CountKind(log', "drv_Close") = 1
            /\ last_op'[2] \notin Handles(SDL_joysticks')
            /\ MagicFails(Cur', last_op'[2])
            /\ last_op'[2] \in stale'
       /\ \A h \in stale' :
            /\ \A id \in 0..MaxID : SDL_GetJoystickFromInstanceID(Cur', id) # h
            /\ \A player_index \in -1..(MaxSlot + 1) :
                  SDL_GetJoystickFromPlayerIndex(Cur', player_index) # h
       /\ ReopenAfterClose =>
            /\ ret' \notin stale'
            /\ ret' \notin Handles(SDL_joysticks)
            /\ ret' \in Handles(SDL_joysticks')
            /\ HandleOf(SDL_joysticks', ret').ref_count = 1
            /\ HandleOf(SDL_joysticks', ret').instance_id = last_op'[2]]_vars

C13_Witness ==
    /\ last_op[1] = "Open" /\ last_op[3] = "ok"
    /\ stale # {}
    /\ ret \in Handles(SDL_joysticks) \ stale
    /\ HandleOf(SDL_joysticks, ret).ref_count = 1
    /\ HandleOf(SDL_joysticks, ret).instance_id = last_op[2]
    /\ SDL_GetJoystickFromInstanceID(Cur, last_op[2]) = ret
    /\ CountKind(log, "drv_Open") = 1

SharedClose ==
    /\ last_op'[1] = "Close"
    /\ last_op'[2] \in Handles(SDL_joysticks)
    /\ HandleOf(SDL_joysticks, last_op'[2]).ref_count > 1

(* C14: SDL_CloseJoystick on a handle whose ref_count is greater than 1    *)
(* only decrements ref_count: the handle stays in the registry and passes  *)
(* the identity check, every other field of every handle (rumble and input *)
(* state included) and the player-index table are unchanged, and no driver *)
(* function is called.                                                     *)
C14_SharedCloseOnlyDecrements ==
    [][SharedClose =>
          LET k == FindByHandle(SDL_joysticks, last_op'[2])
          IN  /\ SDL_joysticks' = [SDL_joysticks EXCEPT ![k].ref_count = @ - 1]
              /\ ~MagicFails(Cur', last_op'[2])
              /\ SDL_joystick_players' = SDL_joystick_players
              /\ SDL_joysticks_locked' = SDL_joysticks_locked
              /\ DriverCalls(log') = {}
              /\ stale' = stale]_vars

C14_Witness ==
    /\ last_op[1] = "Close"
    /\ last_op[2] \in Handles(SDL_joysticks)
    /\ HandleOf(SDL_joysticks, last_op[2]).ref_count = 1
    /\ HandleOf(SDL_joysticks, last_op[2]).rumble_expiration # 0
    /\ HandleOf(SDL_joysticks, last_op[2]).low_frequency_rumble = LifeRumble
    /\ log = <<>>

RemovedWhileOpen ==
    /\ last_op'[1] = "Removed"
    /\ FindByInstance(SDL_joysticks, last_op'[2]) # 0

QueryDetached ==
    /\ last_op'[1] = "Connected"
    /\ last_op'[2] \in Handles(SDL_joysticks)
    /\ ~HandleOf(SDL_joysticks, last_op'[2]).attached

(* C15: hot-plug removal of an open device sets the handle's attached flag *)
(* to false and leaves the handle in the registry list with its ref_count  *)
(* and identity marker unchanged; the handle still passes the identity     *)
(* check (SDL_JoystickConnected answers false without an error) until it   *)
(* is closed, and the attached flag of a handle never turns true again.    *)
C15_RemovalDetachesOnly ==
    [][/\ RemovedWhileOpen =>
            LET k == FindByInstance(SDL_joysticks, last_op'[2])
            IN  /\ Len(SDL_joysticks') = Len(SDL_joysticks)
                /\ \A m \in 1..Len(SDL_joysticks) :
                      /\ SDL_joysticks'[m].hid = SDL_joysticks[m].hid
                      /\ SDL_joysticks'[m].instance_id = SDL_joysticks[m].instance_id
                      /\ SDL_joysticks'[m].ref_count = SDL_joysticks[m].ref_count
                      /\ SDL_joysticks'[m].magic = SDL_joysticks[m].magic
                      /\ m # k => SDL_joysticks'[m] = SDL_joysticks[m]
                /\ ~SDL_joysticks'[k].attached
                /\ ~MagicFails(Cur', SDL_joysticks[k].hid)
       /\ QueryDetached =>
            /\ ret' = FALSE
            /\ log' = <<>>
            /\ SDL_joysticks' = SDL_joysticks
       /\ \A h \in Handles(SDL_joysticks) \cap Handles(SDL_joysticks') :
            ~HandleOf(SDL_joysticks, h).attached => ~HandleOf(SDL_joysticks', h).attached]_vars

C15_Witness ==
    /\ last_op[1] = "Connected"
    /\ last_op[2] \in Handles(SDL_joysticks)
    /\ ~HandleOf(SDL_joysticks, last_op[2]).attached
    /\ HandleOf(SDL_joysticks, last_op[2]).ref_count >= 1
    /\ HandleOf(SDL_joysticks, last_op[2]).instance_id \notin DOMAIN devices
    /\ ret = FALSE
    /\ log = <<>>

OpenOfUnknownId ==
    /\ last_op'[1] = "Open"
    /\ ~SDL_GetDriverAndJoystickIndex(Cur, last_op'[2])

OpenDriverFails ==
    /\ last_op'[1] = "Open" /\ last_op'[3] = "open_fail"
    /\ SDL_GetDriverAndJoystickIndex(Cur, last_op'[2])
    /\ FindByInstance(SDL_joysticks, last_op'[2]) = 0

(* C16: when SDL_OpenJoystick fails because the instance id is unknown     *)
(* (id 0 included) or because driver Open fails, it returns no handle and  *)
(* leaves the registry list, every handle's ref_count, the player-index    *)
(* table and the lock depth as they were before the call.                  *)
C16_FailedOpenChangesNothing ==
    [][(OpenOfUnknownId \/ OpenDriverFails) =>
          /\ ret' = NULL
          /\ SDL_joysticks' = SDL_joysticks
          /\ SDL_joystick_players' = SDL_joystick_players
          /\ SDL_joysticks_locked' = SDL_joysticks_locked
          /\ (OpenOfUnknownId => log' = <<>>)
          /\ (OpenDriverFails => log' = <<<<"drv_Open", last_op'[2], 0, 0>>>>)]_vars

C16_Witness ==
    /\ last_op[1] = "Open" /\ last_op[3] = "open_fail"
    /\ last_op[2] \in DOMAIN devices
    /\ log = <<<<"drv_Open", last_op[2], 0, 0>>>>
    /\ ret = NULL
    /\ SDL_joystick_players # <<>>
    /\ SDL_joysticks_locked = 0
    /\ stale # {}

(***************************************************************************)
(* SpecQuery: one device, opened by the application, fed by its driver and *)
(* read back through the index-based queries with indices inside, above    *)
(* and below the arrays.                                                   *)
(***************************************************************************)
GetJoystickAxisInitialState(hid, axis, oob) ==
    /\ Commit(SDL_GetJoystickAxisInitialState(Cur, hid, axis, oob))
    /\ UNCHANGED <<balance, opened_as>>

GetJoystickHat(hid, hat, oob) ==
    /\ Commit(SDL_GetJoystickHat(Cur, hid, hat, oob))
    /\ UNCHANGED <<balance, opened_as>>

GetJoystickButton(hid, button, oob) ==
    /\ Commit(SDL_GetJoystickButton(Cur, hid, button, oob))
    /\ UNCHANGED <<balance, opened_as>>

QueryIndexes == -1..(NumButtons + 1)
OobValues == {0, 77}

NextQuery ==
    \/ /\ FindByInstance(SDL_joysticks, 1) = 0
       /\ OpenJoystick(1, "ok", 1, <<>>)
       /\ Called(<<"Open", 1, 0, 0>>)
    \/ \E button \in 0..(NumButtons - 1), state \in ButtonStates :
          /\ SendJoystickButton(1, 1, button, state)
          /\ Called(<<"Button", button, state, 0>>)
    \/ \E hat \in 0..(NumHats - 1), value \in HatValues :
          /\ SendJoystickHat(1, 1, hat, value)
          /\ Called(<<"Hat", hat, value, 0>>)
    \/ \E value \in InputAxisValues :
          /\ SendJoystickAxis(1, 1, 0, value)
          /\ Called(<<"Axis", 0, value, 0>>)
    \/ \E hid \in 0..1, axis \in QueryIndexes, oob \in OobValues :
          /\ GetJoystickAxis(hid, axis, oob)
          /\ Called(<<"GetAxis", hid, axis, oob>>)
    \/ \E hid \in 0..1, axis \in QueryIndexes, oob \in OobValues :
          /\ GetJoystickAxisInitialState(hid, axis, oob)
          /\ Called(<<"GetAxisInitialState", hid, axis, oob>>)
    \/ \E hid \in 0..1, hat \in QueryIndexes, oob \in OobValues :
          /\ GetJoystickHat(hid, hat, oob)
          /\ Called(<<"GetHat", hid, hat, oob>>)
    \/ \E hid \in 0..1, button \in QueryIndexes, oob \in OobValues :
          /\ GetJoystickButton(hid, button, oob)
          /\ Called(<<"GetButton", hid, button, oob>>)

SpecQuery == InitInput /\ [][NextQuery]_vars

(* The number of elements the query named op can index in joystick. *)
QueryCount(op, joystick) ==
    CASE op = "GetAxis" -> Len(joystick.axes)
      [] op = "GetAxisInitialState" -> Len(joystick.axes)
      [] op = "GetHat" -> Len(joystick.hats)
      [] op = "GetButton" -> Len(joystick.buttons)

QueryZero(op) == IF op = "GetAxisInitialState" THEN <<FALSE, NULL>> ELSE 0

ArrayReads(l) ==
    {i \in 1..Len(l) : l[i][1] \in {"read_axes", "read_hats", "read_buttons"}}

QueryOps == {"GetAxis", "GetAxisInitialState", "GetHat", "GetButton"}

QueryOutOfRange ==
    /\ last_op'[1] \in QueryOps
    /\ last_op'[2] \in Handles(SDL_joysticks)
    /\ \/ last_op'[3] < 0
       \/ last_op'[3] >= QueryCount(last_op'[1], HandleOf(SDL_joysticks, last_op'[2]))

(* C17: SDL_GetJoystickAxis, SDL_GetJoystickHat, SDL_GetJoystickButton and *)
(* SDL_GetJoystickAxisInitialState, given an index outside [0, count),     *)
(* negative or too large, report an error and return the zero/false value  *)
(* without reading any element of the handle's arrays.                     *)
C17_OutOfRangeIndexRejected ==
    [][QueryOutOfRange =>
          /\ CountKind(log', "SDL_SetError") = 1
          /\ ret' = QueryZero(last_op'[1])
          /\ ArrayReads(log') = {}]_vars

(***************************************************************************)
(* SpecLed: one device, opened once; the application sets the LED colour   *)
(* while SDL_GetTicks advances past the minimum repeat interval.           *)
(***************************************************************************)
LedColours == {<<0, 0, 0>>, <<255, 0, 0>>}
LedTickSteps == {2000, SDL_LED_MIN_REPEAT_MS}

NextLed ==
    \/ /\ FindByInstance(SDL_joysticks, 1) = 0
       /\ OpenJoystick(1, "ok", 1, <<>>)
       /\ Called(<<"Open", 1, 0, 0>>)
    \/ \E colour \in LedColours, drv_ok \in BOOLEAN :
          /\ SetJoystickLED(1, colour, drv_ok)
          /\ Called(<<"SetLED", 1, colour, drv_ok>>)
    \/ \E step \in LedTickSteps :
          /\ Tick(step)
          /\ Called(<<"Tick", step, 0, 0>>)

SpecLed == InitInput /\ [][NextLed]_vars

LedCall ==
    /\ last_op'[1] = "SetLED"
    /\ last_op'[2] \in Handles(SDL_joysticks)

(* C18: SDL_SetJoystickLED calls driver SetLED exactly when the requested  *)
(* colour differs from the stored colour or the current time is at or past *)
(* led_expiration; an issued write sets led_expiration to now plus         *)
(* SDL_LED_MIN_REPEAT_MS and returns the driver's result, a suppressed     *)
(* write returns success without a driver call and leaves led_expiration,  *)
(* and the requested colour is recorded in every case.                     *)
C18_LedWriteThrottled ==
    [][LedCall =>
          LET joystick == HandleOf(SDL_joysticks, last_op'[2])
              after == HandleOf(SDL_joysticks', last_op'[2])
              colour == last_op'[3]
              issued == colour # joystick.led \/ now >= joystick.led_expiration
          IN  /\ CountKind(log', "drv_SetLED") = (IF issued THEN 1 ELSE 0)
              /\ issued => /\ after.led_expiration = now + SDL_LED_MIN_REPEAT_MS
                           /\ ret' = (IF last_op'[4] THEN 0 ELSE -1)
              /\ ~issued => /\ after.led_expiration = joystick.led_expiration
                            /\ ret' = 0
              /\ after.led = colour]_vars

C18_Witness ==
    /\ last_op[1] = "SetLED"
    /\ repeated
    /\ last_op[2] \in Handles(SDL_joysticks)
    /\ HandleOf(SDL_joysticks, last_op[2]).led = last_op[3]
    /\ last_op[3] # <<0, 0, 0>>
    /\ now > 0
    /\ now < HandleOf(SDL_joysticks, last_op[2]).led_expiration
    /\ log = <<>>
    /\ ret = 0

QuitCall == last_op'[1] = "Quit"

InitAfterQuit == last_op'[1] = "Init" /\ last_op[1] = "Quit"

(* C19: after SDL_QuitJoysticks the registry list is empty, every handle   *)
(* that was open is invalidated whatever its ref_count was, the            *)
(* player-index table is empty and the initialized and quitting flags are  *)
(* both false; a following SDL_InitJoysticks starts from that empty state. *)
C19_QuitEmptiesEverything ==
    [][/\ QuitCall =>
            /\ SDL_joysticks' = <<>>
            /\ \A h \in Handles(SDL_joysticks) : h \in stale' /\ MagicFails(Cur', h)
            /\ CountKind(log', "drv_Close") = Len(SDL_joysticks)
            /\ SDL_joystick_players' = <<>>
            /\ ~SDL_joysticks_initialized'
            /\ ~SDL_joysticks_quitting'
            /\ devices' = NoDevices
            /\ SDL_joysticks_locked' = SDL_joysticks_locked
       /\ InitAfterQuit =>
            /\ SDL_joysticks = <<>> /\ SDL_joystick_players = <<>>
            /\ ~SDL_joysticks_initialized /\ ~SDL_joysticks_quitting
            /\ SDL_joysticks' = <<>> /\ SDL_joystick_players' = <<>>
            /\ ~SDL_joysticks_quitting']_vars

C19_Witness ==
    /\ last_op[1] = "Quit"
    /\ CountKind(log, "drv_Close") >= 1
    /\ CountKind(log, "ev_removed") >= 1
    /\ stale # {}
    /\ SDL_joysticks = <<>>
    /\ SDL_joystick_players = <<>>
    /\ ~SDL_joysticks_initialized /\ ~SDL_joysticks_quitting

InitCall == last_op'[1] = "Init"

InitAttempts(l, i) == {n \in 1..Len(l) : l[n][1] = "drv_Init" /\ l[n][3] = i}

MaxSlotHid == 1     \* handles opened over the life of SpecSlots

NextSlots ==
    \/ \E gamepad \in BOOLEAN, dpi \in -1..MaxSlot :
          /\ JoystickAdded(gamepad, FALSE, FALSE, dpi)
          /\ Called(<<"Added", next_id, dpi, gamepad>>)
    \/ \E id \in IDs :
          /\ JoystickRemoved(id, 1)
          /\ Called(<<"Removed", id, 0, 0>>)
    \/ \E id \in IDs :
          /\ FindByInstance(SDL_joysticks, id) = 0
          /\ next_hid <= MaxSlotHid
          /\ OpenJoystick(id, "ok", 1, <<>>)
          /\ Called(<<"Open", id, 0, 0>>)
    \/ \E hid \in 1..MaxSlotHid, pi \in -1..MaxSlot :
          /\ SetJoystickPlayerIndex(hid, pi)
          /\ Called(<<"SetPlayerIndex", hid, pi, 0>>)

SpecSlots == InitPlayers /\ [][NextSlots]_vars

(* The step is a call that reaches SDL_SetJoystickIDForPlayerIndex: the   *)
(* public setter on a valid handle, or a hot-plug add that has a slot to  *)
(* claim.  SetId and SetSlot are the arguments it is entered with.        *)
SetId ==
    IF last_op'[1] = "SetPlayerIndex"
    THEN LET k == FindByHandle(SDL_joysticks, last_op'[2])
         IN  IF k = 0 THEN 0 ELSE SDL_joysticks[k].instance_id
    ELSE IF last_op'[1] = "Added" THEN last_op'[2]
    ELSE 0

LowestFree(players) ==
    LET free == {s \in 0..(Len(players) - 1) : players[s + 1] = 0}
    IN  IF free = {} THEN Len(players)
        ELSE CHOOSE s \in free : \A t \in free : s <= t

SetSlot ==
    IF last_op'[1] = "SetPlayerIndex" THEN last_op'[3]
    ELSE IF last_op'[1] = "Added"
         THEN IF last_op'[3] < 0 /\ last_op'[4]
              THEN LowestFree(SDL_joystick_players)
              ELSE last_op'[3]
    ELSE -1

SetCall ==
    /\ SetId # 0
    /\ last_op'[1] = "Added" => SetSlot >= 0

SlotsOf(players, id) == {s \in 0..(Len(players) - 1) : players[s + 1] = id}

Occupant(players, slot) ==
    IF slot >= 0 /\ slot < Len(players) THEN players[slot + 1] ELSE 0

Displaces == SetCall /\ Occupant(SDL_joystick_players, SetSlot) \notin {0, SetId}

(* C21: when the target slot of SetPlayerIndex(slot, id) is held by a   *)
(* different id B, afterwards id holds the target slot and B holds      *)
(* exactly one other slot: the lowest-numbered slot that is free once   *)
(* id's previous slot is cleared, the table growing by one when no slot *)
(* is free; B stays in the table.                                       *)
C21_DisplacedOccupantRelocated ==
    [][Displaces =>
          LET players == SDL_joystick_players
              B == Occupant(players, SetSlot)
              cleared == [s \in 1..Len(players) |->
                            IF players[s] = SetId THEN 0 ELSE players[s]]
              taken == [cleared EXCEPT ![SetSlot + 1] = SetId]
              dest == LowestFree(taken)
          IN  /\ SlotsOf(SDL_joystick_players', SetId) = {SetSlot}
              /\ SlotsOf(SDL_joystick_players', B) = {dest}
              /\ dest # SetSlot
              /\ Len(SDL_joystick_players') =
                    IF dest = Len(players) THEN Len(players) + 1 ELSE Len(players)
              /\ \A s \in 0..(Len(players) - 1) :
                    s # dest => SDL_joystick_players'[s + 1] = taken[s + 1]]_vars

(* The last call took a slot from another id, which moved to a slot that *)
(* grew the table.                                                       *)
C21_Witness ==
    /\ last_op[1] = "SetPlayerIndex"
    /\ \E k \in 1..Len(SDL_joysticks) :
          /\ SDL_joysticks[k].hid = last_op[2]
          /\ Occupant(SDL_joystick_players, last_op[3]) = SDL_joysticks[k].instance_id
          /\ \E B \in IDs \ {SDL_joysticks[k].instance_id} :
                /\ SlotsOf(SDL_joystick_players, B) = {Len(SDL_joystick_players) - 1}
                /\ log = <<
                     <<"drv_SetDevicePlayerIndex", SDL_joysticks[k].instance_id, last_op[3], 0>>,
                     <<"drv_SetDevicePlayerIndex", B, Len(SDL_joystick_players) - 1, 0>> >>

(* The number of nested invocations of SDL_SetJoystickIDForPlayerIndex   *)
(* that one call makes: itself, plus the relocation call of lines        *)
(* 300-303 when the slot had an occupant.                                *)
RECURSIVE SDL_SetJoystickIDForPlayerIndex_calls(_, _, _)
SDL_SetJoystickIDForPlayerIndex_calls(players, player_index, instance_id) ==
    LET existing_instance == SDL_GetJoystickIDForPlayerIndex(players, player_index)
        grown == GrowPlayers(players, player_index)
    IN  IF /\ player_index < Len(players)
           /\ player_index >= 0
           /\ players[player_index + 1] = instance_id
        THEN 1
        ELSE
          LET cleared == ClearOldPlayerIndex(grown, instance_id)
              assigned == IF player_index >= 0
                          THEN [cleared EXCEPT ![player_index + 1] = instance_id]
                          ELSE cleared
          IN  IF existing_instance > 0
              THEN 1 + SDL_SetJoystickIDForPlayerIndex_calls(
                            assigned, SDL_FindFreePlayerIndex(assigned), existing_instance)
              ELSE 1

(* C22: SetPlayerIndex(slot, id) returns for every table and every      *)
(* argument after at most one relocation of a displaced occupant        *)
(* (nesting depth at most 2), the relocation targeting an empty slot.   *)
C22_AtMostOneRelocation ==
    [][SetCall =>
          LET players == SDL_joystick_players
              n == SDL_SetJoystickIDForPlayerIndex_calls(players, SetSlot, SetId)
              taken == [ClearOldPlayerIndex(GrowPlayers(players, SetSlot), SetId)
                          EXCEPT ![SetSlot + 1] = SetId]
          IN  /\ n <= 2
              /\ n = 2 <=> Displaces
              /\ Displaces => Occupant(taken, SDL_FindFreePlayerIndex(taken)) = 0]_vars

(* A hot-plug add with a driver-reported index took the slot of another *)
(* id, which was relocated once.                                        *)
C22_Witness ==
    /\ last_op[1] = "Added"
    /\ last_op[3] >= 0
    /\ Occupant(SDL_joystick_players, last_op[3]) = last_op[2]
    /\ \E B \in IDs \ {last_op[2]} :
          /\ Cardinality(SlotsOf(SDL_joystick_players, B)) = 1
          /\ CountKind(log, "drv_SetDevicePlayerIndex") = 2
          /\ log[2][1] = "drv_SetDevicePlayerIndex" /\ log[2][2] = B

PlayerIndexCalls(l, id) ==
    {n \in 1..Len(l) : l[n][1] = "drv_SetDevicePlayerIndex" /\ l[n][2] = id}

(* C23: SetPlayerIndex(slot, id) with the slot already holding id leaves *)
(* the player-index table unchanged and makes no SetDevicePlayerIndex    *)
(* call; in every other case the driver's SetDevicePlayerIndex is called *)
(* exactly once for id, with the new slot, when id is a present device.  *)
C23_DriverToldOncePerChange ==
    [][SetCall =>
          LET calls == PlayerIndexCalls(log', SetId)
          IN  IF Occupant(SDL_joystick_players, SetSlot) = SetId
              THEN /\ SDL_joystick_players' = SDL_joystick_players
                   /\ CountKind(log', "drv_SetDevicePlayerIndex") = 0
              ELSE IF SetId \in DOMAIN devices'
                   THEN /\ Cardinality(calls) = 1
                        /\ \A n \in calls : log'[n][3] = SetSlot
                   ELSE calls = {}]_vars

(* A present device's handle was given the slot it already held. *)
C23_Witness ==
    /\ last_op[1] = "SetPlayerIndex"
    /\ last_op[3] >= 0
    /\ \E k \in 1..Len(SDL_joysticks) :
          /\ SDL_joysticks[k].hid = last_op[2]
          /\ SDL_joysticks[k].instance_id \in DOMAIN devices
          /\ Occupant(SDL_joystick_players, last_op[3]) = SDL_joysticks[k].instance_id
    /\ log = <<>>
    /\ ret = 0

(* C24: after SDL_PrivateJoystickRemoved(id) returns, id occupies no slot *)
(* of the player-index table and the slots of all other ids are as they  *)
(* were.                                                                  *)
C24_RemovalFreesOnlyItsSlot ==
    [][last_op'[1] = "Removed" =>
          LET id == last_op'[2]
          IN  /\ SlotsOf(SDL_joystick_players', id) = {}
              /\ Len(SDL_joystick_players') = Len(SDL_joystick_players)
              /\ \A s \in 1..Len(SDL_joystick_players) :
                    SDL_joystick_players[s] # id =>
                        SDL_joystick_players'[s] = SDL_joystick_players[s]]_vars

(* With no handle ever opened, the device that took slot 1 when it was *)
(* added was removed while the other device holds slot 0.              *)
C24_Witness ==
    /\ last_op[1] = "Removed"
    /\ next_id = 3
    /\ \A i \in IDs : opened_as[i] = {}
    /\ \E B \in IDs \ {last_op[2]} : SDL_joystick_players = <<B, 0>>

(* C25: on a hot-plug add outside shutdown, a device whose driver reports *)
(* a player index k >= 0 ends up holding slot k; a gamepad whose driver   *)
(* reports none ends up holding the lowest-numbered slot that was free;   *)
(* a non-gamepad whose driver reports none is given no slot.              *)
C25_AddedDeviceSlot ==
    [][(last_op'[1] = "Added" /\ ~SDL_joysticks_quitting) =>
          LET id == last_op'[2]
              k == last_op'[3]
              gamepad == last_op'[4]
              held == SlotsOf(SDL_joystick_players', id)
          IN  IF k >= 0 THEN held = {k}
              ELSE IF gamepad THEN held = {LowestFree(SDL_joystick_players)}
              ELSE /\ held = {}
                   /\ SDL_joystick_players' = SDL_joystick_players]_vars

(* A gamepad with no driver-reported index was added while slot 1 was  *)
(* taken and slot 0 free, and holds slot 0.                             *)
C25_Witness ==
    /\ last_op[1] = "Added"
    /\ last_op[3] = -1
    /\ last_op[4] = TRUE
    /\ \E B \in IDs \ {last_op[2]} : SDL_joystick_players = <<last_op[2], B>>
    /\ log = << <<"drv_SetDevicePlayerIndex", last_op[2], 0, 0>>,
                <<"ev_added", last_op[2], 0, 0>>,
                <<"gamepad_added", last_op[2], 0, 0>> >>

(***************************************************************************)
(* SpecCycle: two devices, opened at most once each, that may be removed   *)
(* while open; a rumble is started on the first handle, the clock advances *)
(* and SDL_UpdateJoysticks runs with samples from the drivers.             *)
(***************************************************************************)
CycleIDs == {1, 2}
CycleMagnitudes == {65535}
CycleDurations == {1000}
CycleSamples == {<<>>, <<<<"button", 0, SDL_PRESSED>>>>}
CycleTimestamps == {1, 2}

InitCycle ==
    /\ SDL_joysticks_initialized = TRUE
    /\ SDL_joysticks_quitting = FALSE
    /\ SDL_joysticks = <<>>
    /\ SDL_joystick_players = <<>>
    /\ SDL_joystick_allows_background_events = TRUE
    /\ devices = [i \in CycleIDs |->
                    [gamepad |-> FALSE, virtual |-> FALSE, centered |-> FALSE,
                     naxes |-> NumAxes]]
    /\ next_id = 3
    /\ next_hid = 1
    /\ unfocused = FALSE
    /\ now = 0
    /\ sensor_refs = 0
    /\ log = <<>>
    /\ ret = 0
    /\ last_op = <<"None", 0, 0, 0>>
    /\ balance = [i \in IDs |-> 0]
    /\ opened_as = [i \in IDs |-> {}]
    /\ samples_hist = <<>>
    /\ axis_evs = <<>>
    /\ focus_kept = TRUE
    /\ repeated = FALSE
    /\ stale = {}
    /\ GuidIdle
    /\ LockIdle

NextCycle ==
    \/ \E id \in CycleIDs :
          /\ FindByInstance(SDL_joysticks, id) = 0
          /\ OpenJoystick(id, "ok", 1, <<>>)
          /\ Called(<<"Open", id, 0, 0>>)
    \/ \E id \in CycleIDs :
          /\ JoystickRemoved(id, 1)
          /\ Called(<<"Removed", id, 0, 0>>)
    \/ \E lo \in CycleMagnitudes, duration_ms \in CycleDurations :
          /\ 1 \in Handles(SDL_joysticks)
          /\ RumbleJoystick(1, lo, 0, duration_ms, TRUE)
          /\ Called(<<"Rumble", 1, lo, duration_ms>>)
    \/ \E step \in CycleDurations :
          /\ Tick(step)
          /\ Called(<<"Tick", step, 0, 0>>)
    \/ \E timestamp \in CycleTimestamps, samples \in CycleSamples,
          update_complete_enabled \in BOOLEAN :
          /\ UpdateJoysticks(timestamp, samples, TRUE, update_complete_enabled)
          /\ Called(<<"Update", timestamp, samples, update_complete_enabled>>)

SpecCycle == InitCycle /\ [][NextCycle]_vars

UpdateCall == last_op'[1] = "Update" /\ SDL_joysticks_initialized

KindPositions(l, kinds) == {n \in 1..Len(l) : l[n][1] \in kinds}

PerHandleKinds ==
    {"drv_Update", "drv_Rumble", "drv_RumbleTriggers", "ev_update_complete",
     "ev_axis", "ev_hat", "ev_button_down", "ev_button_up"}

(* C26: in every SDL_UpdateJoysticks cycle of an initialized subsystem  *)
(* every driver's Detect is invoked exactly once, and only after all    *)
(* per-handle driver Update calls, rumble servicing and update-complete *)
(* notifications of the cycle; no handle leaves the registry while the  *)
(* per-handle loops run.                                                *)
C26_DetectOnceAfterHandles ==
    [][UpdateCall =>
          /\ \A i \in 1..NumDrivers :
                Cardinality({n \in 1..Len(log') :
                                log'[n][1] = "drv_Detect" /\ log'[n][3] = i}) = 1
          /\ \A d \in KindPositions(log', {"drv_Detect"}) :
                \A n \in KindPositions(log', PerHandleKinds) : n < d
          /\ Len(SDL_joysticks') = Len(SDL_joysticks)
          /\ \A k \in 1..Len(SDL_joysticks) :
                SDL_joysticks'[k].hid = SDL_joysticks[k].hid]_vars

(* One cycle updated an attached handle, stopped an expired rumble and *)
(* sent an update-complete notification before the drivers' Detect.    *)
C26_Witness ==
    /\ last_op[1] = "Update"
    /\ Len(SDL_joysticks) = 2
    /\ KindPositions(log, {"drv_Update"}) # {}
    /\ \E n \in KindPositions(log, {"drv_Rumble"}) : log[n][3] = 0
    /\ KindPositions(log, {"ev_update_complete"}) # {}
    /\ Cardinality(KindPositions(log, {"drv_Detect"})) = NumDrivers

StoredKinds == {"ev_axis", "ev_hat", "ev_button_down", "ev_button_up"}

(* The change marker of the k-th handle when the notifications of the   *)
(* cycle are due: the cycle's timestamp if a sample was stored for it   *)
(* in this cycle, else the marker it came in with.                      *)
MarkerAtNotify(k) ==
    IF \E n \in KindPositions(log', StoredKinds) :
          log'[n][2] = SDL_joysticks[k].instance_id
    THEN last_op'[2]
    ELSE SDL_joysticks[k].update_complete

Notifications(l, id) ==
    {n \in 1..Len(l) : l[n][1] = "ev_update_complete" /\ l[n][2] = id}

NotifiedAndCleared(k) ==
    LET notes == Notifications(log', SDL_joysticks[k].instance_id)
    IN  /\ Cardinality(notes) = IF MarkerAtNotify(k) # 0 THEN 1 ELSE 0
        /\ \A n \in notes : log'[n][3] = MarkerAtNotify(k)
        /\ SDL_joysticks'[k].update_complete = 0

RumbleJoystickTriggers(hid, left_rumble, right_rumble, duration_ms, drv_ok) ==
    LET k == FindByHandle(SDL_joysticks, hid)
    IN  /\ IF ~MagicFails(Cur, hid)
           THEN Commit(SDL_RumbleJoystickTriggers(Cur, k, left_rumble, right_rumble,
                                                  duration_ms, drv_ok))
           ELSE Commit(CHECK_JOYSTICK_MAGIC(SDL_LockJoysticks(Cur), -1))
        /\ UNCHANGED <<balance, opened_as>>

(***************************************************************************)
(* SpecService: one device, opened once, that may be removed while open;   *)
(* rumble and trigger rumble are started, the clock advances and           *)
(* SDL_UpdateJoysticks services the expirations and the resend.            *)
(***************************************************************************)
ServiceMagnitudes == {0, 65535}
ServiceDurations == {1000, 5000}

NextService ==
    \/ /\ FindByInstance(SDL_joysticks, 1) = 0
       /\ OpenJoystick(1, "ok", 1, <<>>)
       /\ Called(<<"Open", 1, 0, 0>>)
    \/ /\ JoystickRemoved(1, 1)
       /\ Called(<<"Removed", 1, 0, 0>>)
    \/ \E lo \in ServiceMagnitudes, duration_ms \in ServiceDurations, drv_ok \in BOOLEAN :
          /\ RumbleJoystick(1, lo, 0, duration_ms, drv_ok)
          /\ Called(<<"Rumble", lo, duration_ms, drv_ok>>)
    \/ \E left \in ServiceMagnitudes, duration_ms \in ServiceDurations :
          /\ RumbleJoystickTriggers(1, left, 0, duration_ms, TRUE)
          /\ Called(<<"RumbleTriggers", left, duration_ms, 0>>)
    \/ \E step \in TickSteps :
          /\ Tick(step)
          /\ Called(<<"Tick", step, 0, 0>>)
    \/ \E drv_ok \in BOOLEAN :
          /\ UpdateJoysticks(1, <<>>, drv_ok, TRUE)
          /\ Called(<<"Update", drv_ok, 0, 0>>)

SpecService == InitInput /\ [][NextService]_vars

RumbleExpired(joystick) ==
    joystick.rumble_expiration # 0 /\ now >= joystick.rumble_expiration

ResendDue(joystick) ==
    joystick.rumble_resend # 0 /\ now >= joystick.rumble_resend

TriggerRumbleExpired(joystick) ==
    joystick.trigger_rumble_expiration # 0 /\ now >= joystick.trigger_rumble_expiration

DriverCommands(l, kind, id) == {n \in 1..Len(l) : l[n][1] = kind /\ l[n][2] = id}

(* C28: SDL_UpdateJoysticks never calls the driver's Update on a handle   *)
(* whose attached flag is false, while rumble expiration, trigger-rumble  *)
(* expiration and rumble resend are still serviced for detached handles  *)
(* that remain open.                                                      *)
C28_DetachedServicedNotUpdated ==
    [][UpdateCall =>
          \A k \in 1..Len(SDL_joysticks) :
             LET joystick == SDL_joysticks[k]
                 id == joystick.instance_id
             IN  ~joystick.attached =>
                   /\ DriverCommands(log', "drv_Update", id) = {}
                   /\ RumbleExpired(joystick) =>
                         \E n \in DriverCommands(log', "drv_Rumble", id) :
                            log'[n][3] = 0 /\ log'[n][4] = 0
                   /\ TriggerRumbleExpired(joystick) =>
                         \E n \in DriverCommands(log', "drv_RumbleTriggers", id) :
                            log'[n][3] = 0 /\ log'[n][4] = 0
                   /\ (ResendDue(joystick) /\ ~RumbleExpired(joystick)) =>
                         /\ \E n \in DriverCommands(log', "drv_Rumble", id) :
                               /\ log'[n][3] = joystick.low_frequency_rumble
                               /\ log'[n][4] = joystick.high_frequency_rumble
                         /\ SDL_joysticks'[k].rumble_resend # 0]_vars

(* A cycle on a detached open handle stopped its expired rumble and its *)
(* expired trigger rumble and did not call the driver's Update.         *)
C28_Witness ==
    /\ last_op[1] = "Update"
    /\ Len(SDL_joysticks) = 1
    /\ ~SDL_joysticks[1].attached
    /\ DriverCommands(log, "drv_Update", 1) = {}
    /\ \E n \in DriverCommands(log, "drv_Rumble", 1) : log[n][3] = 0
    /\ DriverCommands(log, "drv_RumbleTriggers", 1) # {}
    /\ SDL_joysticks[1].rumble_expiration = 0
    /\ SDL_joysticks[1].trigger_rumble_expiration = 0

RumbleIdle(joystick) ==
    /\ joystick.low_frequency_rumble = 0
    /\ joystick.high_frequency_rumble = 0
    /\ joystick.rumble_expiration = 0
    /\ joystick.rumble_resend = 0

(* C29: in an update cycle whose clock is at or past a non-zero           *)
(* rumble_expiration, the driver succeeding, the driver receives one      *)
(* zero-magnitude Rumble command and the handle's magnitudes,             *)
(* rumble_expiration and rumble_resend all become 0; no resend of the old *)
(* magnitudes is issued in that cycle or, until another rumble call, in   *)
(* any later one; while not expired, a due resend reissues the recorded   *)
(* magnitudes and reschedules rumble_resend to a non-zero, later time.    *)
C29_ExpiryStopsResendRepeats ==
    [][\A k \in 1..Len(SDL_joysticks) :
          LET joystick == SDL_joysticks[k]
              id == joystick.instance_id
              cmds == DriverCommands(log', "drv_Rumble", id)
          IN  /\ (UpdateCall /\ RumbleExpired(joystick) /\ last_op'[2] = TRUE) =>
                    /\ Cardinality(cmds) = 1
                    /\ \A n \in cmds : log'[n][3] = 0 /\ log'[n][4] = 0
                    /\ RumbleIdle(SDL_joysticks'[k])
              /\ (UpdateCall /\ RumbleIdle(joystick)) => cmds = {}
              /\ (last_op'[1] # "Rumble" /\ RumbleIdle(joystick)) =>
                    RumbleIdle(SDL_joysticks'[k])
              /\ (UpdateCall /\ ~RumbleExpired(joystick) /\ ResendDue(joystick)) =>
                    /\ Cardinality(cmds) = 1
                    /\ \A n \in cmds :
                          /\ log'[n][3] = joystick.low_frequency_rumble
                          /\ log'[n][4] = joystick.high_frequency_rumble
                    /\ SDL_joysticks'[k].rumble_resend # 0
                    /\ SDL_joysticks'[k].rumble_resend > now]_vars

(* A cycle stopped the expired rumble of an attached handle: one zero *)
(* command, and nothing left scheduled.                               *)
C29_Witness ==
    /\ last_op = <<"Update", TRUE, 0, 0>>
    /\ Len(SDL_joysticks) = 1
    /\ SDL_joysticks[1].attached
    /\ RumbleIdle(SDL_joysticks[1])
    /\ Cardinality(DriverCommands(log, "drv_Rumble", 1)) = 1
    /\ \E n \in DriverCommands(log, "drv_Rumble", 1) : log[n][3] = 0 /\ log[n][4] = 0

(***************************************************************************)
(* SpecLive: one device whose rumble is started with durations below and   *)
(* above SDL_MAX_RUMBLE_DURATION_MS.  The caller keeps calling             *)
(* SDL_UpdateJoysticks and the clock keeps advancing, which is the weak    *)
(* fairness of the two steps; the driver succeeds in the update cycle.     *)
(***************************************************************************)
LiveMaxNow == 100000    \* the clock stops advancing at or past this time
LiveDurations == {20000, 70000}
LiveTickSteps == {20000, 65535}
LiveMagnitudes == {65535}

LiveTick ==
    \E step \in LiveTickSteps :
       /\ now < LiveMaxNow
       /\ Commit([Cur EXCEPT !.now = now + step])
       /\ UNCHANGED <<balance, opened_as>>
       /\ Called(<<"Tick", step, 0, 0>>)

(* The cycle's result is computed once and then committed. *)
LiveUpdate ==
    /\ SDL_joysticks_initialized
    /\ \E st \in {SDL_UpdateJoysticks(Cur, 1, <<>>, TRUE, TRUE)} : Commit(st)
    /\ UNCHANGED <<balance, opened_as>>
    /\ Called(<<"Update", TRUE, 0, 0>>)

NextLive ==
    \/ /\ FindByInstance(SDL_joysticks, 1) = 0
       /\ OpenJoystick(1, "ok", 1, <<>>)
       /\ Called(<<"Open", 1, 0, 0>>)
    \/ /\ JoystickRemoved(1, 1)
       /\ Called(<<"Removed", 1, 0, 0>>)
    \/ \E lo \in LiveMagnitudes, duration_ms \in LiveDurations, drv_ok \in BOOLEAN :
          /\ now + SDL_min(duration_ms, SDL_MAX_RUMBLE_DURATION_MS) <= LiveMaxNow
          /\ RumbleJoystick(1, lo, 0, duration_ms, drv_ok)
          /\ Called(<<"Rumble", lo, duration_ms, drv_ok>>)
    \/ LiveTick
    \/ LiveUpdate

InitLive == InitInput /\ devices = OneDevice(FALSE, FALSE, NumAxes)

SpecLive ==
    /\ InitLive
    /\ [][NextLive]_vars
    /\ WF_vars(LiveTick)
    /\ WF_vars(LiveUpdate)

ZeroCommands(l, id) ==
    {n \in DriverCommands(l, "drv_Rumble", id) : l[n][3] = 0 /\ l[n][4] = 0}

RumblePending ==
    /\ Len(SDL_joysticks) = 1
    /\ SDL_joysticks[1].rumble_expiration # 0
    /\ last_op[1] # "Rumble"

RumbleZeroed ==
    /\ last_op[1] = "Update"
    /\ Len(SDL_joysticks) = 1
    /\ ZeroCommands(log, 1) # {}
    /\ RumbleIdle(SDL_joysticks[1])

(* C30: if SDL_RumbleJoystick succeeds with non-zero magnitudes and a     *)
(* non-zero duration d at time t, and SDL_UpdateJoysticks keeps being     *)
(* called while the clock advances and driver commands succeed, then      *)
(* unless another rumble call intervenes the rumble is eventually zeroed  *)
(* at the driver, at the first update cycle whose clock is at or past     *)
(* t + min(d, SDL_MAX_RUMBLE_DURATION_MS), and the scheduler never zeroes *)
(* it before that time.                                                   *)
C30_RumbleStopsOnTime ==
    /\ [][Len(SDL_joysticks) = 1 =>
            LET joystick == SDL_joysticks[1]
                after == SDL_joysticks'[1]
            IN  /\ (/\ last_op'[1] = "Rumble"
                    /\ ret' = 0
                    /\ last_op'[2] # 0
                    /\ last_op'[3] # 0) =>
                      after.rumble_expiration =
                         now + SDL_min(last_op'[3], SDL_MAX_RUMBLE_DURATION_MS)
                /\ (/\ last_op'[1] # "Rumble"
                    /\ joystick.rumble_expiration # 0
                    /\ now < joystick.rumble_expiration) =>
                      /\ after.rumble_expiration = joystick.rumble_expiration
                      /\ after.low_frequency_rumble = joystick.low_frequency_rumble
                      /\ ZeroCommands(log', 1) = {}
                /\ (/\ last_op'[1] = "Update"
                    /\ joystick.rumble_expiration # 0
                    /\ now >= joystick.rumble_expiration) =>
                      /\ ZeroCommands(log', 1) # {}
                      /\ RumbleIdle(after)]_vars
    /\ RumblePending ~> (RumbleZeroed \/ last_op[1] = "Rumble")

(* A rumble was stopped by the cycle run when the clock stood exactly at *)
(* SDL_MAX_RUMBLE_DURATION_MS.                                           *)
C30_Witness ==
    /\ RumbleZeroed
    /\ now = SDL_MAX_RUMBLE_DURATION_MS

(***************************************************************************)
(* A rumble call that the driver refuses.                                  *)
(***************************************************************************)
FailedRumbleCall ==
    /\ last_op'[1] = "Rumble"
    /\ ret' = -1
    /\ Len(SDL_joysticks) = 1
    /\ Len(SDL_joysticks') = 1

(* C31: SDL_RumbleJoystick records the magnitudes, the expiration and the *)
(* resend time only when the driver command succeeds: after a call whose  *)
(* driver Rumble failed, the handle's low and high magnitudes, its        *)
(* rumble_expiration and its rumble_resend are what they were before the  *)
(* call, so that no resend is scheduled for the refused rumble.           *)
C31_FailedRumbleRecordsNothing ==
    [][FailedRumbleCall =>
          /\ SDL_joysticks'[1].low_frequency_rumble = SDL_joysticks[1].low_frequency_rumble
          /\ SDL_joysticks'[1].high_frequency_rumble = SDL_joysticks[1].high_frequency_rumble
          /\ SDL_joysticks'[1].rumble_expiration = SDL_joysticks[1].rumble_expiration
          /\ SDL_joysticks'[1].rumble_resend = SDL_joysticks[1].rumble_resend]_vars

(***************************************************************************)
(* SpecClose: one device whose handle is opened, rumbled (with and         *)
(* without a duration) and closed.                                         *)
(***************************************************************************)
CloseMagnitudes == {0, 65535}
CloseDurations == {0, 1000}

NextClose ==
    \/ /\ OpenJoystick(1, "ok", 1, <<>>)
       /\ Called(<<"Open", 1, 0, 0>>)
    \/ \E hid \in 1..MaxHid, lo \in CloseMagnitudes, duration_ms \in CloseDurations,
          drv_ok \in BOOLEAN :
          /\ RumbleJoystick(hid, lo, 0, duration_ms, drv_ok)
          /\ Called(<<"Rumble", hid, lo, duration_ms>>)
    \/ \E hid \in 1..MaxHid, left \in CloseMagnitudes, duration_ms \in CloseDurations,
          drv_ok \in BOOLEAN :
          /\ RumbleJoystickTriggers(hid, left, 0, duration_ms, drv_ok)
          /\ Called(<<"RumbleTriggers", hid, left, duration_ms>>)
    \/ \E hid \in 1..MaxHid, drv_ok \in BOOLEAN :
          /\ CloseJoystick(hid, drv_ok)
          /\ Called(<<"Close", hid, drv_ok, 0>>)

SpecClose == InitInput /\ [][NextClose]_vars

(* The call is the final close of the one open handle. *)
FinalCloseCall ==
    /\ last_op'[1] = "Close"
    /\ Len(SDL_joysticks) = 1
    /\ SDL_joysticks[1].hid = last_op'[2]
    /\ SDL_joysticks' = <<>>

(* A zero-magnitude command of the kind precedes the driver's Close. *)
ZeroedBeforeClose(l, kind) ==
    \E n \in DriverCommands(l, kind, 1), c \in DriverCommands(l, "drv_Close", 1) :
        /\ l[n][3] = 0
        /\ l[n][4] = 0
        /\ n < c

(* C32: on the final close of a handle whose recorded rumble magnitudes   *)
(* (or trigger-rumble magnitudes) are non-zero, whatever duration the     *)
(* rumble was started with, the driver receives a zero-magnitude Rumble   *)
(* (RumbleTriggers) command before its Close is called.                   *)
C32_CloseStopsActiveRumble ==
    [][FinalCloseCall =>
          /\ (\/ SDL_joysticks[1].low_frequency_rumble # 0
              \/ SDL_joysticks[1].high_frequency_rumble # 0) =>
                 ZeroedBeforeClose(log', "drv_Rumble")
          /\ (\/ SDL_joysticks[1].left_trigger_rumble # 0
              \/ SDL_joysticks[1].right_trigger_rumble # 0) =>
                 ZeroedBeforeClose(log', "drv_RumbleTriggers")]_vars

(* C33: under any sequence of samples and focus changes the first          *)
(* axis-motion event ever delivered for an axis carries the axis's         *)
(* initial_value: no event with another value is delivered before it.      *)
C33_FirstEventIsInitialValue ==
    (Len(SDL_joysticks) = 1 /\ axis_evs # <<>>) =>
        axis_evs[1] = SDL_joysticks[1].axes[1].initial_value

(***************************************************************************)
(* Axis 0 of the one open handle, and the steps that hand it a sample.     *)
(***************************************************************************)
Axis0 == SDL_joysticks[1].axes[1]

AxisSampleCall == Len(SDL_joysticks) = 1 /\ samples_hist' # samples_hist

LastSample == samples_hist'[Len(samples_hist')]

StrictlyBetween(v, a, b) == (a < v /\ v < b) \/ (b < v /\ v < a)

(* C34: while events are ignored for lack of focus, every delivered axis  *)
(* event carries the axis's zero or a value strictly between zero and the *)
(* value stored before the call, the distance of the stored value from    *)
(* zero never grows, and a sample equal to zero that differs from the     *)
(* stored value is delivered once the initial value has been sent.        *)
C34_UnfocusedOnlyTowardZero ==
    [][(AxisSampleCall /\ SDL_PrivateJoystickShouldIgnoreEvent(Cur)) =>
          LET after == SDL_joysticks'[1].axes[1]
              delivered == DeliveredAxisValues(log', 0)
          IN  /\ \A n \in 1..Len(delivered) :
                    \/ delivered[n] = after.zero
                    \/ StrictlyBetween(delivered[n], after.zero, Axis0.value)
              /\ SDL_abs(after.value - after.zero) <= SDL_abs(Axis0.value - Axis0.zero)
              /\ (/\ Axis0.sent_initial_value
                  /\ LastSample = Axis0.zero
                  /\ LastSample # Axis0.value) =>
                    /\ delivered = <<LastSample>>
                    /\ after.value = LastSample]_vars

(* Without focus a sample strictly between zero and the stored value was  *)
(* delivered.                                                             *)
C34_Witness ==
    /\ SDL_PrivateJoystickShouldIgnoreEvent(Cur)
    /\ samples_hist = <<90, 5000, 100>>
    /\ axis_evs = <<90, 5000, 100>>
    /\ log = <<<<"ev_axis", 1, 0, 100>>>>

(* C35: for any axis of any device, virtual devices included, two         *)
(* consecutive delivered axis-motion events never carry the same value.   *)
C35_NoRepeatedAxisValue ==
    \A n \in 1..(Len(axis_evs) - 1) : axis_evs[n] # axis_evs[n + 1]

(***************************************************************************)
(* SpecTouch: one device with one touchpad of one finger, opened once and  *)
(* fed button, hat and touchpad samples under focus changes, and finally   *)
(* removed.                                                                *)
(***************************************************************************)
TouchStates == {SDL_RELEASED, SDL_PRESSED}
TouchCoords == {0, 2}
TouchPressures == {0, 1}

(* SDL_OpenJoystick, whose driver Open adds the touchpad. *)
OpenJoystickWithTouchpad(instance_id, nfingers) ==
    /\ FindByInstance(SDL_joysticks, instance_id) = 0
    /\ next_hid <= MaxHid
    /\ LET st1 == SDL_OpenJoystick(Cur, instance_id, "ok", 1, <<>>)
       IN  IF st1.ret # NULL
           THEN /\ Commit(SDL_PrivateJoystickAddTouchpad(st1, 1, nfingers))
                /\ balance' = [balance EXCEPT ![instance_id] = @ + 1]
                /\ opened_as' = [opened_as EXCEPT ![instance_id] = @ \cup {st1.ret}]
           ELSE /\ Commit(st1)
                /\ UNCHANGED <<balance, opened_as>>

SendJoystickTouchpad(hid, timestamp, touchpad, finger, state, x, y, pressure) ==
    LET k == FindByHandle(SDL_joysticks, hid)
    IN  /\ k # 0
        /\ SDL_joysticks[k].attached
        /\ Commit(SDL_SendJoystickTouchpad(Cur, k, timestamp, touchpad, finger, state,
                                           x, y, pressure))
        /\ UNCHANGED <<balance, opened_as>>

NextTouch ==
    \/ /\ OpenJoystickWithTouchpad(1, 1)
       /\ Called(<<"Open", 1, 0, 0>>)
    \/ \E button \in 0..NumButtons, state \in ButtonStates :
          /\ SendJoystickButton(1, 1, button, state)
          /\ Called(<<"Button", button, state, 0>>)
    \/ \E hat \in 0..NumHats, value \in HatValues :
          /\ SendJoystickHat(1, 1, hat, value)
          /\ Called(<<"Hat", hat, value, 0>>)
    \/ \E finger \in 0..1, state \in TouchStates, x \in TouchCoords,
          pressure \in TouchPressures :
          /\ SendJoystickTouchpad(1, 1, 0, finger, state, x, 0, pressure)
          /\ Called(<<"Touchpad", finger, state, <<x, pressure>>>>)
    \/ /\ FocusChanged
       /\ Called(<<"Focus", 0, 0, 0>>)
    \/ /\ JoystickRemoved(1, 1)
       /\ Called(<<"Removed", 1, 0, 0>>)

SpecTouch == InitInput /\ [][NextTouch]_vars

EventKinds(l) == {l[n][1] : n \in 1..Len(l)}

(* The step is a sample handed to the one open handle. *)
SampleCall ==
    /\ Len(SDL_joysticks) = 1
    /\ Len(SDL_joysticks') = 1
    /\ last_op'[1] \in {"Button", "Hat", "Touchpad"}

(* A release, centering or finger-up that changes the stored state. *)
ReleaseCall ==
    LET joystick == SDL_joysticks[1]
        op == last_op'
    IN  /\ SampleCall
        /\ \/ /\ op[1] = "Button"
              /\ op[2] < Len(joystick.buttons)
              /\ op[3] = SDL_RELEASED
              /\ joystick.buttons[op[2] + 1] = SDL_PRESSED
           \/ /\ op[1] = "Hat"
              /\ op[2] < Len(joystick.hats)
              /\ op[3] = SDL_HAT_CENTERED
              /\ joystick.hats[op[2] + 1] # SDL_HAT_CENTERED
           \/ /\ op[1] = "Touchpad"
              /\ op[2] < Len(joystick.touchpads[1])
              /\ op[3] = SDL_RELEASED
              /\ joystick.touchpads[1][op[2] + 1].state # 0

ReleaseApplied ==
    LET after == SDL_joysticks'[1]
        op == last_op'
    IN  \/ /\ op[1] = "Button"
           /\ after.buttons[op[2] + 1] = SDL_RELEASED
           /\ log' = <<<<"ev_button_up", 1, op[2], SDL_RELEASED>>>>
        \/ /\ op[1] = "Hat"
           /\ after.hats[op[2] + 1] = SDL_HAT_CENTERED
           /\ log' = <<<<"ev_hat", 1, op[2], SDL_HAT_CENTERED>>>>
        \/ /\ op[1] = "Touchpad"
           /\ after.touchpads[1][op[2] + 1].state = 0
           /\ EventKinds(log') = {"ev_touchpad_up"}

(* C36: while events are ignored for lack of focus no button goes from    *)
(* released to pressed, no hat changes to a non-centered value and no     *)
(* touchpad finger goes down or moves, neither in the stored state nor as *)
(* a delivered event; button releases, hat centering and finger-up        *)
(* transitions are applied and delivered, with or without focus.          *)
C36_UnfocusedOnlyReleases ==
    [][/\ (SampleCall /\ SDL_PrivateJoystickShouldIgnoreEvent(Cur)) =>
            LET joystick == SDL_joysticks[1]
                after == SDL_joysticks'[1]
            IN  /\ \A b \in 1..Len(joystick.buttons) :
                      joystick.buttons[b] = SDL_RELEASED => after.buttons[b] = SDL_RELEASED
                /\ \A h \in 1..Len(joystick.hats) :
                      after.hats[h] # joystick.hats[h] => after.hats[h] = SDL_HAT_CENTERED
                /\ \A f \in 1..Len(joystick.touchpads[1]) :
                      \/ after.touchpads[1][f] = joystick.touchpads[1][f]
                      \/ /\ joystick.touchpads[1][f].state # 0
                         /\ after.touchpads[1][f].state = 0
                /\ \A n \in 1..Len(log') :
                      /\ log'[n][1] \notin {"ev_button_down", "ev_touchpad_down",
                                            "ev_touchpad_motion"}
                      /\ log'[n][1] = "ev_hat" => log'[n][4] = SDL_HAT_CENTERED
       /\ ReleaseCall => ReleaseApplied]_vars

(* Without focus a finger-up was applied and delivered. *)
C36_Witness ==
    /\ SDL_PrivateJoystickShouldIgnoreEvent(Cur)
    /\ last_op[1] = "Touchpad"
    /\ last_op[3] = SDL_RELEASED
    /\ Len(SDL_joysticks) = 1
    /\ SDL_joysticks[1].touchpads[1][1].state = 0
    /\ EventKinds(log) = {"ev_touchpad_up"}

(***************************************************************************)
(* SpecFusion: a device, gamepad or not, appears and is opened and closed;  *)
(* at each first open the driver may report a built-in sensor, the hint    *)
(* may ask for sensor fusion and the system offers a list of sensors.      *)
(***************************************************************************)
Accel(id) == [id |-> id, type |-> "SDL_SENSOR_ACCEL"]
Gyro(id) == [id |-> id, type |-> "SDL_SENSOR_GYRO"]
FusionSensorLists == {<<>>, <<Gyro(2), Accel(1)>>, <<Accel(1), Accel(3)>>}

(* The sensors the handle has borrowed. *)
Borrowed(joystick) ==
    (IF joystick.accel_sensor # 0 THEN 1 ELSE 0) + (IF joystick.gyro_sensor # 0 THEN 1 ELSE 0)

RECURSIVE BorrowedTotal(_)
BorrowedTotal(js) == IF js = <<>> THEN 0 ELSE Borrowed(Head(js)) + BorrowedTotal(Tail(js))

(* SDL_OpenJoystick: the driver's Open may add a built-in sensor (builtin), *)
(* and a new handle goes through the sensor fusion of lines 818-821.        *)
OpenJoystickFusing(instance_id, builtin, hint_says, sensors, init_ok) ==
    /\ LET found == FindByInstance(SDL_joysticks, instance_id)
       IN  IF found # 0 THEN SDL_joysticks[found].ref_count < MaxRef
           ELSE next_hid <= MaxHid
    /\ LET st1 == SDL_OpenJoystick(Cur, instance_id, "ok", 1, <<>>)
           fresh == FindByInstance(SDL_joysticks, instance_id) = 0 /\ st1.ret # NULL
           st2 == IF fresh /\ builtin THEN SDL_PrivateJoystickAddSensor(st1, 1) ELSE st1
           st3 == IF fresh /\ ShouldAttemptSensorFusion(st2.joysticks[1], hint_says)
                  THEN AttemptSensorFusion(st2, 1, sensors, init_ok)
                  ELSE st2
       IN  /\ Commit(st3)
           /\ IF st1.ret # NULL
              THEN /\ balance' = [balance EXCEPT ![instance_id] = @ + 1]
                   /\ opened_as' = [opened_as EXCEPT ![instance_id] = @ \cup {st1.ret}]
              ELSE UNCHANGED <<balance, opened_as>>

BorrowedBy(hid) ==
    LET k == FindByHandle(SDL_joysticks, hid)
    IN  IF k = 0 THEN 0 ELSE Borrowed(SDL_joysticks[k])

NextFusion ==
    \/ \E gamepad \in BOOLEAN :
          /\ next_id <= MaxLifeID
          /\ JoystickAdded(gamepad, FALSE, FALSE, -1)
          /\ Called(<<"Added", next_id, gamepad, 0>>)
    \/ \E id \in LifeIDs, builtin \in BOOLEAN, hint_says \in BOOLEAN,
          sensors \in FusionSensorLists, init_ok \in BOOLEAN :
          /\ OpenJoystickFusing(id, builtin, hint_says, sensors, init_ok)
          /\ Called(<<"Open", id, 0, 0>>)
    \/ \E hid \in 1..MaxHid :
          /\ CloseJoystick(hid, TRUE)
          /\ Called(<<"Close", hid, BorrowedBy(hid), sensor_refs>>)
    \/ \E id \in LifeIDs :
          /\ JoystickRemoved(id, 1)
          /\ Called(<<"Removed", id, 0, 0>>)
    \/ /\ QuitJoysticks(1, TRUE)
       /\ Called(<<"Quit", 0, 0, 0>>)

SpecFusion == InitPlayers /\ [][NextFusion]_vars

(* C37: the reference count of the sensor subsystem is what the open      *)
(* handles hold, one reference per borrowed sensor, so that after the     *)
(* final close of a handle it is what it was before the handle's open;    *)
(* a handle that is not a gamepad, or whose driver reported built-in      *)
(* sensors at open, never holds a borrowed sensor.                        *)
C37_SensorReferencesBalanced ==
    /\ sensor_refs = BorrowedTotal(SDL_joysticks)
    /\ \A k \in 1..Len(SDL_joysticks) :
          LET joystick == SDL_joysticks[k]
          IN  /\ ~joystick.is_gamepad => Borrowed(joystick) = 0
              /\ Borrowed(joystick) <= joystick.nsensors
              /\ joystick.nsensors > Borrowed(joystick) => Borrowed(joystick) = 0

(* The final close of a handle that had borrowed both sensors. *)
C37_Witness ==
    /\ last_op[1] = "Close"
    /\ last_op[3] = 2
    /\ last_op[4] = 2
    /\ sensor_refs = 0
    /\ SDL_joysticks = <<>>

(* C38: every non-zero instance id stored in the player-index table names *)
(* a device that is present (added and not yet removed), whatever the     *)
(* sequence of add, remove, open and SDL_SetJoystickPlayerIndex calls,    *)
(* calls on an already detached handle included.                          *)
C38_SlotsNamePresentDevices ==
    \A n \in 1..Len(SDL_joystick_players) :
        SDL_joystick_players[n] # 0 => SDL_joystick_players[n] \in DOMAIN devices

(* C39: for every name (empty, one or two characters long included), bus  *)
(* below 0x20 and signature, the GUID created with vendor 0 and product 0 *)
(* decodes to vendor 0, product 0 and version 0: name bytes are never     *)
(* decoded as vendor, product or version.                                 *)
C39_NameFormDecodesToZeros ==
    (/\ guid_pc = "decoded"
     /\ guid_args.vendor = 0
     /\ guid_args.product = 0
     /\ guid_args.bus < 32) =>
        /\ guid_info.vendor = 0
        /\ guid_info.product = 0
        /\ guid_info.version = 0

(* The activations of SDL_SendJoystickAxis that one call nests. *)
RECURSIVE SDL_SendJoystickAxis_depth(_, _, _, _)
SDL_SendJoystickAxis_depth(st, k, axis, value) ==
    LET joystick == st.joysticks[k]
    IN  IF axis >= Len(joystick.axes) THEN 1
        ELSE
          LET info == joystick.axes[axis + 1]
              takes == AxisTakesInitialValue(info, value)
              info1 == IF takes
                       THEN [info EXCEPT !.initial_value = value, !.value = value,
                                         !.zero = value, !.has_initial_value = TRUE]
                       ELSE [info EXCEPT !.has_second_value = TRUE]
          IN  IF ~takes /\ value = info.value /\ ~info.sending_initial_value THEN 1
              ELSE IF info1.sent_initial_value \/ AxisIsJitter(joystick, info1, value) THEN 1
              ELSE 1 + SDL_SendJoystickAxis_depth(
                           SetAxisInfo(st, k, axis,
                                       [info1 EXCEPT !.sent_initial_value = TRUE,
                                                     !.sending_initial_value = TRUE]),
                           k, axis, info1.initial_value)

AxisFlagsOrdered(info) ==
    /\ info.sent_initial_value => info.has_second_value
    /\ info.has_second_value => info.has_initial_value
    /\ ~info.sending_initial_value

(* C40: for every axis in every reachable state sent_initial_value        *)
(* implies has_second_value, which implies has_initial_value;             *)
(* sending_initial_value is false between calls and a call of             *)
(* SDL_SendJoystickAxis nests at most two activations; once               *)
(* has_second_value is set the axis's initial_value and zero never change.*)
C40_AxisFlagsOrdered ==
    /\ [](\A k \in 1..Len(SDL_joysticks) :
             \A a \in 1..Len(SDL_joysticks[k].axes) :
                /\ AxisFlagsOrdered(SDL_joysticks[k].axes[a])
                /\ \A value \in AxisSamples :
                      SDL_SendJoystickAxis_depth(Cur, k, a - 1, value) <= 2)
    /\ [][(Len(SDL_joysticks) = 1 /\ Len(SDL_joysticks') = 1) =>
             \A a \in 1..Len(SDL_joysticks[1].axes) :
                SDL_joysticks[1].axes[a].has_second_value =>
                   /\ SDL_joysticks'[1].axes[a].has_second_value
                   /\ SDL_joysticks'[1].axes[a].initial_value =
                         SDL_joysticks[1].axes[a].initial_value
                   /\ SDL_joysticks'[1].axes[a].zero = SDL_joysticks[1].axes[a].zero]_vars

(* After an extreme first sample and a second one far from it, a third    *)
(* sample near the centre was handled with the initial value kept.        *)
C40_Witness ==
    /\ Len(SDL_joysticks) = 1
    /\ samples_hist = <<-32767, 32767, 90>>
    /\ Axis0.sent_initial_value
    /\ Axis0.initial_value = -32767
    /\ Axis0.value = 90

====
